---- MODULE Spec2Model ----
(***************************************************************************)
(* Bounded pollers of the repository:                                      *)
(*   - AirbyteResource.make_request / sync_and_poll                        *)
(*     with its request cache (cache_requests, make_request_cached) and    *)
(*     the forwarding of the job's log lines                               *)
(*     (dagster_airbyte/resources.py)                                      *)
(*   - wait_for_runs_to_finish, poll_for_finished_run, poll_for_event,     *)
(*     step_did_not_run, step_succeeded, step_failed                       *)
(*     (dagster/_core/test_utils.py)                                       *)
(* One invocation of one operation is modelled per behaviour; `op` names   *)
(* the operation that was invoked (for the request cache: one caller that  *)
(* enters and leaves contexts and makes cached calls).  Time is counted in *)
(* integer ticks.                                                          *)
(* For sync_and_poll a tick is an arbitrary unit of time.monotonic(); for  *)
(* the local pollers a tick is 0.01 s, and the float arithmetic of the     *)
(* source is modelled as exact arithmetic.                                 *)
(***************************************************************************)
EXTENDS Integers, Sequences, FiniteSets, TLC

VARIABLES
    op,                   \* the operation invoked in this behaviour
    pc,                   \* position of the invocation in its code
    outcome,              \* what the caller receives: "none" while running
    clock,                \* time.monotonic(), in ticks
    \* ---- AirbyteResource configuration
    request_max_retries,
    request_retry_delay,
    cancel_sync_on_run_termination,
    \* ---- make_request: the call in progress / the last call
    req,                  \* "idle", "inflight", "returned", "failed", "aborted"
    num_retries,
    attempts,             \* HTTP attempts made by that call
    retry_sleeps,         \* time.sleep(request_retry_delay) calls of that call
    \* ---- sync_and_poll arguments and locals
    poll_interval,
    poll_timeout,
    start,
    state,
    primary,              \* how the try block was left: "none" while inside
    \* ---- what the Airbyte server has seen from this invocation
    nStatusQueries,       \* get_job_status calls that sent a request
    nNonTerminal,         \* running/pending/incomplete statuses it answered
    nCancelRequests,      \* cancel_job calls
    \* ---- local pollers: arguments and locals
    timeout,
    total_time,
    interval,             \* `interval`; named `backoff` in poll_for_event
    run_id,
    run_tags,
    event_type,
    message,
    runs,                 \* what instance.get_runs returned to the query
    logs,                 \* what instance.all_logs returned to the last
                          \* query; dropped when the next sleep begins
    \* ---- what the local process has done
    nQueries,             \* get_runs / all_logs calls
    slept,                \* accumulated time.sleep time
    last_sleep,           \* length of the last time.sleep
    \* ---- sync_and_poll: the job's attempts and the forwarding of their logs
    forward_logs,
    job_attempt_limit,    \* how many attempts the job comes to have at most
    job_attempts,         \* job_details["attempts"] of the last status
                          \* response: the number of logLines per attempt
    logged_attempts,
    logged_lines,
    written,              \* the lines written to stdout: <<attempt, line>>
    \* ---- the request cache of an AirbyteResource
    cache_enabled,        \* _cache_enabled
    request_cache,        \* _request_cache: digest -> response
    nUnderlying,          \* per digest, the make_request calls that have
                          \* returned since the outermost context was entered
    cached_call,          \* the last make_request_cached call and its result
    nCalls,               \* make_request_cached calls
    active_contexts,      \* `with cache_requests()` blocks entered, not left
    \* ---- step_did_not_run, step_succeeded, step_failed
    step_name,
    \* ---- pollers running concurrently, one per thread
    threads,              \* per thread: the call, its arguments, its
                          \* position and what the provider answers it
    frames,               \* per call frame: the locals total_time, interval
    monotonic,            \* time.monotonic(): the time all threads share
    \* ---- make_request called on its own
    response,             \* what the last HTTP attempt did
    return_value,         \* what make_request returned
    \* ---- MockedRunLauncher
    queue,                \* _queue
    launched_run_ids,     \* _launched_run_ids
    bad_run_ids,
    bad_user_code_run_ids,
    launches,             \* the launch_run calls made: run and result
    \* ---- wait_for_futures
    futures,              \* the dict: its target ids in dict order
    futures_copy,         \* futures.copy(), what the loop iterates over
    future_state,         \* per target id: running, finished or raised
    target,               \* how many entries of the copy have been visited
    waited,               \* the ids whose future was not done when visited
    futures_timeout,      \* the `timeout` argument of wait_for_futures
    \* ---- mock_system_timezone
    mocked_system_timezone,  \* _mocked_system_timezone["timezone"]
    tz_contexts,          \* the overrides of the contexts entered, not left
    observed_timezone     \* what get_mocked_system_timezone last returned

airbyteVars ==
    <<request_max_retries, request_retry_delay, cancel_sync_on_run_termination,
      req, num_retries, attempts, retry_sleeps, poll_interval, poll_timeout,
      start, state, primary, nStatusQueries, nNonTerminal,
      nCancelRequests, forward_logs, job_attempt_limit, job_attempts,
      logged_attempts, logged_lines, written>>

\* what the forwarding of log lines reads and writes
forwardVars ==
    <<forward_logs, job_attempt_limit, job_attempts, logged_attempts,
      logged_lines, written>>

cacheVars ==
    <<cache_enabled, request_cache, nUnderlying, cached_call, nCalls,
      active_contexts>>

stepVars == <<step_name>>

threadVars == <<threads, frames, monotonic>>

returnVars == <<response, return_value>>

launcherVars ==
    <<queue, launched_run_ids, bad_run_ids, bad_user_code_run_ids, launches>>

futureVars ==
    <<futures, futures_copy, future_state, target, waited, futures_timeout>>

timezoneVars == <<mocked_system_timezone, tz_contexts, observed_timezone>>

utilVars == <<launcherVars, futureVars, timezoneVars>>

otherVars == <<cacheVars, stepVars, threadVars, returnVars, utilVars>>

localVars ==
    <<timeout, total_time, interval, run_id, run_tags, event_type, message,
      runs, logs, nQueries, slept, last_sleep>>

vars == <<op, pc, outcome, clock, airbyteVars, localVars, otherVars>>

----------------------------------------------------------------------------
(* Bounds of the model *)

MaxRetries == 1
MaxRequestRetries == 3
MaxPollInterval == 2
MaxPollTimeout == 2
MaxJobAttempts == 2
MaxLogLines == 1

\* With poll_interval >= 1 a positive poll_timeout t is exceeded at the
\* latest at the check of iteration t+1, after t+1 status queries.
MaxPolls == MaxPollTimeout + 1

\* make_request retries forever when request_max_retries < 0.
MaxAttempts == MaxRequestRetries + 3

----------------------------------------------------------------------------
(* AirbyteState and the values of the Python source *)

None == "None"

RUNNING == "running"
SUCCEEDED == "succeeded"
CANCELLED == "cancelled"
PENDING == "pending"
FAILED == "failed"
ERROR == "error"
INCOMPLETE == "incomplete"

\* What job_info.get("status") can yield: an AirbyteState, or None when
\* the response carries no status.
JobStatuses ==
    {RUNNING, SUCCEEDED, CANCELLED, PENDING, FAILED, ERROR, INCOMPLETE, None}

\* poll_timeout: Optional[float] = None
NoTimeout == -1

\* Python truth value of poll_timeout
Truthy(t) == t # NoTimeout /\ t # 0

\* request_retry_delay (line 58): the tick of the clock of make_request and
\* sync_and_poll is one retry delay.
RetryDelay == 1

\* What one HTTP attempt does: a JSON body, 204 No Content, or a
\* RequestException (raise_for_status included).
Responses == {"ok", "no_content", "RequestException"}

\* the sequences over S of length at most n
RECURSIVE SeqsUpTo(_, _)
SeqsUpTo(S, n) ==
    IF n = 0 THEN {<<>>}
    ELSE LET shorter == SeqsUpTo(S, n - 1)
         IN  shorter \cup {Append(q, x) : q \in shorter, x \in S}

----------------------------------------------------------------------------
(* AirbyteResource.make_request *)

\* RetriesExhausted giving up one retry late
RetriesExhaustedLate(n, max_retries) == n = max_retries + 1

\* line 178: `if num_retries == self.request_max_retries: break`
RetriesExhausted(n, max_retries) == n = max_retries

\* CallRetries with the retries counted across the calls of a resource
CallRetriesCarried == num_retries

\* line 154: every call starts with `num_retries = 0`; the counters keep
\* the values of the last call until the next call starts.
CallRetries == IF req = "inflight" THEN num_retries ELSE 0
CallAttempts == IF req = "inflight" THEN attempts ELSE 0
CallSleeps == IF req = "inflight" THEN retry_sleeps ELSE 0

\* One pass of the `while True` loop of make_request (lines 155-183):
\* one HTTP attempt answered by `resp`.  Afterwards req' tells whether
\* the call returned, raised Failure('Max retries ... exceeded') or goes on.
MakeRequestAttempt(resp) ==
    /\ CallAttempts < MaxAttempts
    /\ attempts' = CallAttempts + 1
    /\ IF resp # "RequestException"
         THEN /\ req' = "returned"
              /\ num_retries' = CallRetries
              /\ retry_sleeps' = CallSleeps
         ELSE IF RetriesExhausted(CallRetries, request_max_retries)
           THEN /\ req' = "failed"
                /\ num_retries' = CallRetries
                /\ retry_sleeps' = CallSleeps
           ELSE /\ req' = "inflight"
                /\ num_retries' = CallRetries + 1
                /\ retry_sleeps' = CallSleeps + 1

\* line 181: time.sleep(self.request_retry_delay) before the next attempt
ClockAfterAttempt ==
    IF req' = "inflight" THEN clock + request_retry_delay ELSE clock

\* make_request has not returned (yet)
NoValue == "no value"

\* ReturnValue with the body parsed whatever the status code
ReturnValueAlwaysJson(resp) == "json"

\* lines 172-175: None for a 204 response, else response.json()
ReturnValue(resp) == IF resp = "no_content" THEN None ELSE "json"

MakeRequest(resp) ==
    /\ MakeRequestAttempt(resp)
    /\ clock' = ClockAfterAttempt

\* make_request called on its own (as by get_source_schema and the like)
MakeRequestCall(resp) ==
    /\ op = "make_request"
    /\ pc = "make_request"
    /\ MakeRequest(resp)
    /\ CASE req' = "inflight" -> UNCHANGED <<pc, outcome>>
         [] req' = "failed" -> pc' = "done" /\ outcome' = "max_retries"
         [] OTHER -> pc' = "done" /\ outcome' = "returned"
    /\ response' = resp
    /\ return_value' = IF req' = "returned" THEN ReturnValue(resp)
                       ELSE return_value
    /\ UNCHANGED <<op, request_max_retries, request_retry_delay,
                   cancel_sync_on_run_termination, poll_interval, poll_timeout,
                   start, state, primary, nStatusQueries,
                   nNonTerminal, nCancelRequests, forwardVars,
                   localVars, cacheVars, stepVars, threadVars, utilVars>>

----------------------------------------------------------------------------
(* AirbyteResource.sync_and_poll *)

syncConfig ==
    <<op, request_max_retries, request_retry_delay,
      cancel_sync_on_run_termination, poll_interval, poll_timeout>>

\* Classify with `failed` taken for a state of a job that still runs
ClassifyFailedAsRunning(s) ==
    IF s \in {RUNNING, PENDING, INCOMPLETE, FAILED} THEN "continue"
    ELSE IF s = SUCCEEDED THEN "returned"
    ELSE IF s = ERROR THEN "job_failed"
    ELSE IF s = CANCELLED THEN "job_cancelled"
    ELSE "unexpected_state"

\* lines 350-359: what the loop does with a polled status
Classify(s) ==
    IF s \in {RUNNING, PENDING, INCOMPLETE} THEN "continue"
    ELSE IF s = SUCCEEDED THEN "returned"
    ELSE IF s = ERROR THEN "job_failed"
    ELSE IF s = CANCELLED THEN "job_cancelled"
    ELSE "unexpected_state"

\* TimedOut with an absent poll_timeout taken for a timeout of 0
TimedOutNoneAsZero(t, start_time, now) ==
    start_time + (IF t = NoTimeout THEN 0 ELSE t) < now

\* TimedOut with the deadline passed as soon as it is reached
TimedOutAtDeadline(t, start_time, now) == Truthy(t) /\ start_time + t <= now

\* TimedOut with a poll_timeout of 0 taken for a deadline at the start
TimedOutZeroIsDeadline(t, start_time, now) ==
    t # NoTimeout /\ start_time + t < now

\* line 323: `poll_timeout and start + poll_timeout < time.monotonic()`
TimedOut(t, start_time, now) == Truthy(t) /\ start_time + t < now

\* ShouldCancel without the test of cancel_sync_on_run_termination
ShouldCancelIgnoringFlag(s, cancel_flag) ==
    s \notin {SUCCEEDED, ERROR, CANCELLED}

\* ShouldCancel with `error` not counted as a finished job
ShouldCancelOnError(s, cancel_flag) ==
    s \notin {SUCCEEDED, CANCELLED} /\ cancel_flag

\* ShouldCancel with `succeeded` not counted as a finished job
ShouldCancelOnSuccess(s, cancel_flag) ==
    s \notin {ERROR, CANCELLED} /\ cancel_flag

\* lines 363-366: the condition of the cancellation in `finally`
ShouldCancel(s, cancel_flag) ==
    s \notin {SUCCEEDED, ERROR, CANCELLED} /\ cancel_flag

\* SetupFailureExit with lines 310-311 taken for part of the try block
SetupFailureExitInsideTry == "finally"

\* lines 310-311 stand before the `try` of line 320: a Failure raised by
\* get_connection_details or start_sync reaches the caller at once
SetupFailureExit == "done"

\* line 310: get_connection_details, check.not_none of make_request
GetConnectionDetails(resp) ==
    /\ op = "sync_and_poll"
    /\ pc = "get_connection_details"
    /\ MakeRequest(resp)
    /\ CASE req' = "inflight" -> UNCHANGED <<pc, outcome>>
         [] req' = "failed" ->
               pc' = SetupFailureExit /\ outcome' = "max_retries"
         [] resp = "no_content" ->
               pc' = SetupFailureExit /\ outcome' = "check_error"
         [] OTHER -> pc' = "start_sync" /\ outcome' = outcome
    /\ UNCHANGED <<syncConfig, start, state, primary,
                   nStatusQueries, nNonTerminal, nCancelRequests, forwardVars,
                   localVars, otherVars>>

\* lines 311-319: start_sync, then start = time.monotonic(), state = None.
\* No reading of the clock taken before line 316 is kept and the code uses
\* differences of readings only, so the clock is set to 0 at line 316.
StartSync(resp) ==
    /\ op = "sync_and_poll"
    /\ pc = "start_sync"
    /\ MakeRequestAttempt(resp)
    /\ CASE req' = "inflight" ->
               /\ clock' = ClockAfterAttempt
               /\ UNCHANGED <<pc, outcome, start, state>>
         [] req' = "failed" ->
               /\ pc' = SetupFailureExit /\ outcome' = "max_retries"
               /\ UNCHANGED <<clock, start, state>>
         [] resp = "no_content" ->
               /\ pc' = SetupFailureExit /\ outcome' = "check_error"
               /\ UNCHANGED <<clock, start, state>>
         [] OTHER ->
               /\ pc' = "loop" /\ outcome' = outcome
               /\ clock' = 0
               /\ start' = clock' /\ state' = None
    /\ UNCHANGED <<syncConfig, primary, nStatusQueries,
                   nNonTerminal, nCancelRequests, forwardVars,
                   localVars, otherVars>>

\* lines 322-327: the deadline check at the start of an iteration
CheckTimeout ==
    /\ op = "sync_and_poll"
    /\ pc = "loop"
    /\ IF TimedOut(poll_timeout, start, clock)
         THEN pc' = "finally" /\ primary' = "timeout"
         ELSE pc' = "sleep" /\ primary' = primary
    /\ UNCHANGED <<syncConfig, outcome, clock, req, num_retries, attempts,
                   retry_sleeps, start, state, nStatusQueries,
                   nNonTerminal, nCancelRequests, forwardVars,
                   localVars, otherVars>>

\* line 328: time.sleep(poll_interval)
Sleep ==
    /\ op = "sync_and_poll"
    /\ pc = "sleep"
    /\ nStatusQueries < MaxPolls
    /\ clock' = clock + poll_interval
    /\ pc' = "get_job_status"
    /\ UNCHANGED <<syncConfig, outcome, req, num_retries, attempts,
                   retry_sleeps, start, state, primary,
                   nStatusQueries, nNonTerminal, nCancelRequests, forwardVars,
                   localVars, otherVars>>

\* job_details["attempts"] as the server can answer it: one entry per
\* attempt, here the number of its logLines.  Line k of attempt a is the
\* pair <<a, k>>, a counted from 0 as logged_attempts is.
AttemptSnapshots(limit) == SeqsUpTo(0..MaxLogLines, limit)

\* The attempts of a job and their logs only grow.
Grown(before, limit) ==
    {s \in AttemptSnapshots(limit) :
        /\ Len(s) >= Len(before)
        /\ \A i \in 1..Len(before) : s[i] >= before[i]}

\* NewLines writing the whole of log_lines again
NewLinesFromStart(a, from, n) == [k \in 1..n |-> <<a, k>>]

\* line 337: log_lines[logged_lines:] of an attempt with n lines
NewLines(a, from, n) ==
    IF from >= n THEN <<>> ELSE [k \in 1..(n - from) |-> <<a, from + k>>]

\* HasNextAttempt moving on past the last attempt of the snapshot
HasNextAttemptOffByOne(logged, cur) == logged < cur

\* line 343: `if logged_attempts < cur_attempt - 1`
HasNextAttempt(logged, cur) == logged < cur - 1

\* lines 330-345: what one poll writes and where it leaves logged_attempts
\* and logged_lines; `atts` is job_details.get("attempts", [])
ForwardLogs(atts) ==
    LET cur_attempt == Len(atts)
        log_lines == atts[logged_attempts + 1]
        lines_read == IF forward_logs THEN log_lines ELSE logged_lines
        next_attempt == HasNextAttempt(logged_attempts, cur_attempt)
    IN  IF cur_attempt = 0
          THEN [logged_attempts |-> logged_attempts,
                logged_lines |-> logged_lines,
                written |-> written]
          ELSE [logged_attempts |-> IF next_attempt THEN logged_attempts + 1
                                    ELSE logged_attempts,
                logged_lines |-> IF next_attempt THEN 0 ELSE lines_read,
                written |-> IF forward_logs
                            THEN written \o NewLines(logged_attempts, logged_lines,
                                                     log_lines)
                            ELSE written]

\* lines 329-348: get_job_status (check.not_none of make_request), the
\* forwarding of the log lines, then state = job_info.get("status");
\* `status` and `atts` are what the server answers.
GetJobStatus(resp, status, atts) ==
    /\ op = "sync_and_poll"
    /\ pc = "get_job_status"
    /\ MakeRequest(resp)
    /\ nStatusQueries' = IF req = "inflight" THEN nStatusQueries
                         ELSE nStatusQueries + 1
    /\ CASE req' = "inflight" ->
               UNCHANGED <<pc, primary, state, nNonTerminal, job_attempts,
                           logged_attempts, logged_lines, written>>
         [] req' = "failed" ->
               /\ pc' = "finally" /\ primary' = "max_retries"
               /\ UNCHANGED <<state, nNonTerminal, job_attempts,
                              logged_attempts, logged_lines, written>>
         [] resp = "no_content" ->
               /\ pc' = "finally" /\ primary' = "check_error"
               /\ UNCHANGED <<state, nNonTerminal, job_attempts,
                              logged_attempts, logged_lines, written>>
         [] OTHER ->
               /\ pc' = "classify" /\ primary' = primary
               /\ job_attempts' = atts
               /\ logged_attempts' = ForwardLogs(atts).logged_attempts
               /\ logged_lines' = ForwardLogs(atts).logged_lines
               /\ written' = ForwardLogs(atts).written
               /\ state' = status
               /\ nNonTerminal' =
                    IF status \in {"running", "pending", "incomplete"}
                    THEN nNonTerminal + 1 ELSE nNonTerminal
    /\ UNCHANGED <<syncConfig, outcome, start, nCancelRequests, forward_logs,
                   job_attempt_limit, localVars, otherVars>>

\* lines 350-359: continue, break or raise Failure
ClassifyState ==
    /\ op = "sync_and_poll"
    /\ pc = "classify"
    /\ IF Classify(state) = "continue"
         THEN pc' = "loop" /\ primary' = primary
         ELSE pc' = "finally" /\ primary' = Classify(state)
    /\ UNCHANGED <<syncConfig, outcome, clock, req, num_retries, attempts,
                   retry_sleeps, start, state, nStatusQueries,
                   nNonTerminal, nCancelRequests, forwardVars,
                   localVars, otherVars>>

\* A KeyboardInterrupt (or any exception other than the ones above) raised
\* while sync_and_poll runs: inside the try block it reaches `finally`,
\* before the try block it reaches the caller at once.  An interrupt that
\* arrives while the `finally` block itself runs is not modelled.
Interrupt ==
    /\ op = "sync_and_poll"
    /\ pc \in {"get_connection_details", "start_sync", "loop", "sleep",
               "get_job_status", "classify"}
    /\ IF pc \in {"get_connection_details", "start_sync"}
         THEN pc' = "done" /\ outcome' = "interrupted" /\ primary' = primary
         ELSE pc' = "finally" /\ outcome' = outcome /\ primary' = "interrupted"
    /\ req' = IF req = "inflight" THEN "aborted" ELSE req
    /\ UNCHANGED <<syncConfig, clock, num_retries, attempts, retry_sleeps,
                   start, state, nStatusQueries, nNonTerminal,
                   nCancelRequests, forwardVars,
                   localVars, otherVars>>

\* lines 360-367 and 369: the `finally` block up to the call of cancel_job;
\* without a cancellation the outcome of the try block reaches the caller.
Finally ==
    /\ op = "sync_and_poll"
    /\ pc = "finally"
    /\ IF ShouldCancel(state, cancel_sync_on_run_termination)
         THEN /\ pc' = "cancel_job"
              /\ nCancelRequests' = nCancelRequests + 1
              /\ outcome' = outcome
         ELSE /\ pc' = "done"
              /\ nCancelRequests' = nCancelRequests
              /\ outcome' = primary
    /\ UNCHANGED <<syncConfig, clock, req, num_retries, attempts,
                   retry_sleeps, start, state, primary,
                   nStatusQueries, nNonTerminal, forwardVars,
                   localVars, otherVars>>

\* lines 185-186 called from line 367: cancel_job ignores what make_request
\* returns; a Failure raised by it inside `finally` replaces the exception
\* that was in flight.
CancelJob(resp) ==
    /\ op = "sync_and_poll"
    /\ pc = "cancel_job"
    /\ MakeRequest(resp)
    /\ CASE req' = "inflight" -> UNCHANGED <<pc, outcome>>
         [] req' = "failed" -> pc' = "done" /\ outcome' = "max_retries"
         [] OTHER -> pc' = "done" /\ outcome' = primary
    /\ UNCHANGED <<syncConfig, start, state, primary,
                   nStatusQueries, nNonTerminal, nCancelRequests, forwardVars,
                   localVars, otherVars>>

----------------------------------------------------------------------------
(* The DagsterInstance read by the local pollers *)

RunIds == {"r1", "r2"}
Tags == {"t"}
RunStatuses == {"STARTED", "SUCCESS", "FAILURE", "CANCELED"}

\* FinishedStatuses with the status of a run that is still executing
FinishedStatusesWithStarted == {"STARTED", "SUCCESS", "FAILURE", "CANCELED"}

\* lines 236-240: the statuses poll_for_finished_run filters on
FinishedStatuses == {"SUCCESS", "FAILURE", "CANCELED"}

\* DagsterRun.is_finished
IsFinished(run) == run.status \in FinishedStatuses

Runs == [run_id : RunIds, status : RunStatuses, tags : SUBSET Tags]

\* The runs an instance can hold, newest first: run ids are unique.
RunStores ==
    {<<>>} \cup {<<r>> : r \in Runs}
      \cup {<<r, q>> : <<r, q>> \in {x \in Runs \X Runs : x[1].run_id # x[2].run_id}}

Take(seq, n) == IF Len(seq) <= n THEN seq ELSE SubSeq(seq, 1, n)

\* instance.get_runs(RunsFilter(run_ids, tags, statuses), limit): the runs
\* of the store that pass every filter that is given, at most `limit`.
\* An absent filter is None for ids, the empty set for tags and statuses.
GetRuns(store, ids, tags, statuses, limit) ==
    LET Pass(r) ==
          /\ (ids = None \/ r.run_id = ids)
          /\ tags \subseteq r.tags
          /\ (statuses = {} \/ r.status \in statuses)
    IN  Take(SelectSeq(store, Pass), limit)

\* The text of an event: a sequence of characters, or NoMessage for None.
NoMessage == <<"None">>
Contains(sub, text) ==
    \E i \in 0..(Len(text) - Len(sub)) : SubSeq(text, i + 1, i + Len(sub)) = sub

EventMessages == {NoMessage, <<>>, <<"a">>, <<"a", "b">>}
MessageFilters == {NoMessage, <<>>, <<"b">>}

\* EventLogEntry: is_dagster_event, and get_dagster_event()'s
\* event_type_value and message when it is one.
LogRecords ==
    {[is_dagster_event |-> FALSE, event_type_value |-> None, message |-> NoMessage],
     [is_dagster_event |-> TRUE, event_type_value |-> "STEP_SUCCESS",
      message |-> <<"a", "b">>]}
      \cup [is_dagster_event : {TRUE}, event_type_value : {"STEP_START"},
            message : EventMessages]

MaxLogs == 2
MaxTimeout == 12

LogSnapshots == SeqsUpTo(LogRecords, MaxLogs)

----------------------------------------------------------------------------
(* wait_for_runs_to_finish, poll_for_finished_run, poll_for_event *)

localArgs == <<op, timeout, run_id, run_tags, event_type, message>>

\* line 207
WaitInterval == 10
\* lines 231 and 266
PollInterval == 1

\* AllFinished with any() in place of all()
AnyFinished(rs) == \E i \in 1..Len(rs) : IsFinished(rs[i])

\* AllFinished asking for at least one run
AllFinishedOfSome(rs) ==
    rs # <<>> /\ \A i \in 1..Len(rs) : IsFinished(rs[i])

\* line 213: all([run.is_finished for run in runs])
AllFinished(rs) == \A i \in 1..Len(rs) : IsFinished(rs[i])

\* Expired with >= in place of >
ExpiredAtLimit(total, limit) == total >= limit

\* lines 216, 250, 286: `total_time > timeout`
Expired(total, limit) == total > limit

\* NextInterval halving the interval
NextIntervalHalved(i) == i \div 2

\* lines 221 and 285: `interval = interval * 2`, `backoff = backoff * 2`
NextInterval(i) == i * 2

\* lines 212-217: query, return when all runs are finished, else raise on
\* an expired timeout; `store` is what the instance holds at that moment.
WaitForRunsQuery(store) ==
    /\ op = "wait_for_runs_to_finish"
    /\ pc = "query"
    /\ LET fetched == GetRuns(store, None, run_tags, {}, Len(store))
       IN  IF AllFinished(fetched)
             THEN pc' = "done" /\ outcome' = "returned" /\ runs' = fetched
             ELSE IF Expired(total_time, timeout)
               THEN pc' = "done" /\ outcome' = "timed_out" /\ runs' = fetched
               ELSE pc' = "sleep" /\ outcome' = outcome /\ runs' = fetched
    /\ nQueries' = nQueries + 1
    /\ UNCHANGED <<localArgs, clock, total_time, interval, logs, slept,
                   last_sleep, airbyteVars,
                   otherVars>>

\* lines 219-221
WaitForRunsSleep ==
    /\ op = "wait_for_runs_to_finish"
    /\ pc = "sleep"
    /\ clock' = clock + interval
    /\ slept' = slept + interval
    /\ last_sleep' = interval
    /\ total_time' = total_time + interval
    /\ interval' = NextInterval(interval)
    /\ pc' = "query"
    /\ UNCHANGED <<localArgs, outcome, runs, logs, nQueries, airbyteVars,
                   otherVars>>

\* lines 244-246
PollForFinishedRunQuery(store) ==
    /\ op = "poll_for_finished_run"
    /\ pc = "query"
    /\ runs' = GetRuns(store, run_id, run_tags, FinishedStatuses, 1)
    /\ nQueries' = nQueries + 1
    /\ IF runs' # <<>>
         THEN pc' = "done" /\ outcome' = "returned"
         ELSE pc' = "sleep" /\ outcome' = outcome
    /\ UNCHANGED <<localArgs, clock, total_time, interval, logs, slept,
                   last_sleep, airbyteVars,
                   otherVars>>

\* lines 248-251
PollForFinishedRunSleep ==
    /\ op = "poll_for_finished_run"
    /\ pc = "sleep"
    /\ clock' = clock + interval
    /\ slept' = slept + interval
    /\ last_sleep' = interval
    /\ total_time' = total_time + interval
    /\ IF Expired(total_time', timeout)
         THEN pc' = "done" /\ outcome' = "timed_out"
         ELSE pc' = "query" /\ outcome' = outcome
    /\ UNCHANGED <<localArgs, interval, runs, logs, nQueries, airbyteVars,
                   otherVars>>

\* line 269; the snapshot of the iteration before is no longer referenced
PollForEventSleep ==
    /\ op = "poll_for_event"
    /\ pc = "sleep"
    /\ clock' = clock + interval
    /\ slept' = slept + interval
    /\ last_sleep' = interval
    /\ pc' = "query"
    /\ logs' = <<>>
    /\ UNCHANGED <<localArgs, outcome, total_time, interval, runs, nQueries,
                   airbyteVars,
                   otherVars>>

\* MatchingEvents keeping the events of every type
MatchingEventsAnyType(ls, type) == SelectSeq(ls, LAMBDA r : r.is_dagster_event)

\* lines 271-276
MatchingEvents(ls, type) ==
    SelectSeq(ls, LAMBDA r : r.is_dagster_event /\ r.event_type_value = type)

\* EventFound without the message filter
EventFoundAnyMessage(ls, type, msg) == MatchingEvents(ls, type) # <<>>

\* lines 277-282: whether poll_for_event returns on this snapshot
EventFound(ls, type, msg) ==
    LET matching_events == MatchingEvents(ls, type)
    IN  /\ matching_events # <<>>
        /\ \/ msg = NoMessage
           \/ \E i \in 1..Len(matching_events) :
                LET matching_message == matching_events[i].message
                IN  /\ matching_message # NoMessage
                    /\ matching_message # <<>>
                    /\ Contains(msg, matching_message)

\* lines 270-287
PollForEventQuery(ls) ==
    /\ op = "poll_for_event"
    /\ pc = "query"
    /\ nQueries' = nQueries + 1
    /\ IF EventFound(ls, event_type, message)
         THEN /\ pc' = "done" /\ outcome' = "returned" /\ logs' = ls
              /\ UNCHANGED <<total_time, interval>>
         ELSE /\ total_time' = total_time + interval
              /\ interval' = NextInterval(interval)
              /\ IF Expired(total_time', timeout)
                   THEN pc' = "done" /\ outcome' = "timed_out" /\ logs' = ls
                   ELSE pc' = "sleep" /\ outcome' = outcome /\ logs' = ls
    /\ UNCHANGED <<localArgs, clock, runs, slept, last_sleep, airbyteVars,
                   otherVars>>

----------------------------------------------------------------------------
(* AirbyteResource.cache_requests and make_request_cached *)

MaxDepth == 2
MaxCalls == 3

Endpoints == {"/source_definitions/list", "/destination_definitions/list"}

\* The `data` argument: None, or one of two mappings that differ only in
\* the type of a key ({1: v} and {"1": v}).
DataValues == {None, "int_key", "str_key"}

\* line 129: json.dumps(data, sort_keys=True) turns every key into a string
JsonDumps(data) == IF data = None THEN "null" ELSE "{\"1\": v}"

\* lines 130-133: the SHA-1 digest of the endpoint followed by the JSON
\* text; distinct texts are taken to have distinct digests
Digest(endpoint, data) == <<endpoint, JsonDumps(data)>>

Digests == {Digest(e, d) : e \in Endpoints, d \in DataValues}
Pairs == Endpoints \X DataValues

\* What make_request returns to make_request_cached: a response body, or
\* the Failure it raises after its retries.
Bodies == {"x", "y"}

\* lines 173-175: a 204 response makes make_request return None
ReturnValues == Bodies \cup {None}
RequestFailure == "Failure"
NotCached == "absent"

\* lines 123-124: clear_request_cache
EmptyCache == [d \in Digests |-> NotCached]
NoRequests == [p \in Pairs |-> 0]

\* cached_call when make_request_cached was not called since the last
\* entry or exit of a context
NoCall == [endpoint |-> None, data |-> None, result |-> None, sent |-> FALSE]

\* CacheMiss taking a cached None for a missing entry
CacheMissOnNone(cache, digest) == cache[digest] \in {NotCached, None}

\* CacheMiss never finding the digest
CacheMissAlways(cache, digest) == TRUE

\* line 135: `digest not in self._request_cache`
CacheMiss(cache, digest) == cache[digest] = NotCached

\* CacheDisabled with the cache taken for enabled at every depth
CacheDisabledNever(enabled) == FALSE

\* line 127: `if not self._cache_enabled > 0`
CacheDisabled(enabled) == ~(enabled > 0)

\* lines 115-116: entering `with resource.cache_requests():`
CacheRequestsEnter ==
    /\ op = "cache_requests"
    /\ active_contexts < MaxDepth
    /\ active_contexts' = active_contexts + 1
    /\ request_cache' = EmptyCache
    /\ cache_enabled' = cache_enabled + 1
    /\ nUnderlying' = IF cache_enabled = 0 THEN NoRequests ELSE nUnderlying
    /\ cached_call' = NoCall
    /\ UNCHANGED <<op, pc, outcome, clock, nCalls, stepVars, threadVars,
                   airbyteVars,
                   localVars, returnVars,
                   utilVars>>

\* EnabledAfterExit with the decrement after the `try` statement, where an
\* exception raised in the body does not reach it
EnabledAfterExitNoFinally(enabled, by_exception) ==
    IF by_exception THEN enabled ELSE enabled - 1

\* line 121, in the `finally` clause: `self._cache_enabled -= 1`
EnabledAfterExit(enabled, by_exception) == enabled - 1

\* lines 119-121: leaving the `with` block, normally or by an exception
CacheRequestsExit(by_exception) ==
    /\ op = "cache_requests"
    /\ active_contexts > 0
    /\ active_contexts' = active_contexts - 1
    /\ request_cache' = EmptyCache
    /\ cache_enabled' = EnabledAfterExit(cache_enabled, by_exception)
    /\ nUnderlying' = IF cache_enabled = 1 THEN NoRequests ELSE nUnderlying
    /\ cached_call' = NoCall
    /\ UNCHANGED <<op, pc, outcome, clock, nCalls, stepVars, threadVars,
                   airbyteVars,
                   localVars, returnVars,
                   utilVars>>

\* lines 126-137; `result` is what make_request does if it is called
MakeRequestCached(endpoint, data, result) ==
    /\ op = "cache_requests"
    /\ nCalls < MaxCalls
    /\ nCalls' = nCalls + 1
    /\ LET digest == Digest(endpoint, data)
       IN  IF CacheDisabled(cache_enabled)
             THEN /\ cached_call' = [endpoint |-> endpoint, data |-> data,
                                     result |-> result, sent |-> TRUE]
                  /\ UNCHANGED <<request_cache, nUnderlying>>
             ELSE IF CacheMiss(request_cache, digest)
               THEN /\ cached_call' = [endpoint |-> endpoint, data |-> data,
                                       result |-> result, sent |-> TRUE]
                    /\ request_cache' =
                         IF result = RequestFailure THEN request_cache
                         ELSE [request_cache EXCEPT ![digest] = result]
                    /\ nUnderlying' =
                         IF result = RequestFailure THEN nUnderlying
                         ELSE [nUnderlying EXCEPT ![<<endpoint, data>>] = @ + 1]
               ELSE /\ result = request_cache[digest]
                    /\ cached_call' = [endpoint |-> endpoint, data |-> data,
                                       result |-> request_cache[digest],
                                       sent |-> FALSE]
                    /\ UNCHANGED <<request_cache, nUnderlying>>
    /\ UNCHANGED <<op, pc, outcome, clock, cache_enabled, active_contexts,
                   stepVars, threadVars,
                   airbyteVars, localVars,
                   returnVars,
                   utilVars>>

----------------------------------------------------------------------------
(* _step_events, step_did_not_run, step_succeeded, step_failed *)

MaxStepLogs == 2

StepKeys == {"s1", "s2"}

\* EventLogEntry as _step_events reads it: is_dagster_event, step_key
\* (None when the record belongs to no step) and, for a Dagster event,
\* get_dagster_event().event_type_value.
StepRecords ==
    [is_dagster_event : {FALSE}, step_key : StepKeys \cup {None},
     event_type_value : {None}]
      \cup [is_dagster_event : {TRUE}, step_key : StepKeys \cup {None},
            event_type_value : {"STEP_START", "STEP_SUCCESS", "STEP_FAILURE"}]

StepLogs == SeqsUpTo(StepRecords, MaxStepLogs)

\* StepEvents counting the records that are no Dagster events as well
StepEventsOfAllRecords(ls) ==
    [k \in StepKeys |->
       {ls[i].event_type_value : i \in {j \in 1..Len(ls) : ls[j].step_key = k}}]

\* lines 553-560: the defaultdict of _step_events, read at any step key
StepEvents(ls) ==
    [k \in StepKeys |->
       {ls[i].event_type_value :
          i \in {j \in 1..Len(ls) : /\ ls[j].is_dagster_event
                                    /\ ls[j].step_key # None
                                    /\ ls[j].step_key = k}}]

PyBool(b) == IF b THEN "True" ELSE "False"

\* lines 563-565
StepDidNotRun ==
    /\ op = "step_did_not_run"
    /\ pc = "call"
    /\ outcome' = PyBool(Cardinality(StepEvents(logs)[step_name]) = 0)
    /\ pc' = "done"
    /\ UNCHANGED <<op, clock, step_name, cacheVars, threadVars, airbyteVars,
                   localVars, returnVars,
                   utilVars>>

\* lines 568-570
StepSucceeded ==
    /\ op = "step_succeeded"
    /\ pc = "call"
    /\ outcome' = PyBool("STEP_SUCCESS" \in StepEvents(logs)[step_name])
    /\ pc' = "done"
    /\ UNCHANGED <<op, clock, step_name, cacheVars, threadVars, airbyteVars,
                   localVars, returnVars,
                   utilVars>>

\* lines 573-575
StepFailed ==
    /\ op = "step_failed"
    /\ pc = "call"
    /\ outcome' = PyBool("STEP_FAILURE" \in StepEvents(logs)[step_name])
    /\ pc' = "done"
    /\ UNCHANGED <<op, clock, step_name, cacheVars, threadVars, airbyteVars,
                   localVars, returnVars,
                   utilVars>>

----------------------------------------------------------------------------
(* Pollers running concurrently, one call per thread *)

MaxAnswers == 3

LocalPollers == {"wait_for_runs_to_finish", "poll_for_finished_run", "poll_for_event"}

\* the interval each local poller starts with
Seed(o) == IF o = "wait_for_runs_to_finish" THEN WaitInterval ELSE PollInterval

Pollers == LocalPollers \cup {"sync_and_poll"}

ThreadIds == {1, 2}

\* What one query of a call finds.  A local poller finds its terminal
\* condition met or unmet (lines 213, 245, 277-282); sync_and_poll finds a
\* job status (line 347).
Unmet == "unmet"
Met == "met"
Answers(o) ==
    IF o = "sync_and_poll" THEN {RUNNING, SUCCEEDED, ERROR} ELSE {Unmet, Met}

\* whether the poller polls again after this answer, timeout permitting
Continues(o, answer) ==
    IF o = "sync_and_poll" THEN Classify(answer) = "continue"
    ELSE answer = Unmet

\* What the provider answers to the successive queries of one call: the
\* call ends at the first answer it does not continue after, so no answer
\* follows that one; after MaxAnswers answers the call is followed no further.
AnswerSeqs(o) ==
    {s \in SeqsUpTo(Answers(o), MaxAnswers) :
        /\ Len(s) > 0
        /\ \A k \in 1..(Len(s) - 1) : Continues(o, s[k])
        /\ Len(s) = MaxAnswers \/ ~Continues(o, s[Len(s)])}

\* timeout / poll_timeout of a call
ThreadTimeouts(o) ==
    IF o = "sync_and_poll" THEN {NoTimeout, MaxPollTimeout}
    ELSE {0, MaxPollTimeout}

\* the frame of a call at its start: lines 206-207, 230-231, 265-266; for
\* sync_and_poll `interval` is poll_interval and total_time the last
\* reading of time.monotonic() - start
FirstFrame(o) ==
    [total_time |-> 0,
     interval |-> IF o = "sync_and_poll" THEN MaxPollInterval ELSE Seed(o)]

\* poll_for_event and sync_and_poll sleep before their first query (lines
\* 269, 328; the deadline of line 323 cannot have passed at the start)
FirstPc(o) ==
    IF o \in {"poll_for_event", "sync_and_poll"} THEN "sleep" ELSE "query"

FirstLocals(o) ==
    [pc |-> FirstPc(o), nQueries |-> 0, outcome |-> "none",
     total_time |-> FirstFrame(o).total_time,
     interval |-> FirstFrame(o).interval]

\* One query of a poller and what follows it up to the next sleep or the
\* end of the call, as a function of the call's own locals `l`, the answer
\* and the reading `time` of time.monotonic() - start.
AfterQuery(o, l, limit, answer, time) ==
    LET q == [l EXCEPT !.nQueries = @ + 1]
    IN  CASE o = "wait_for_runs_to_finish" ->
               IF answer = Met
                 THEN [q EXCEPT !.pc = "done", !.outcome = "returned"]
               ELSE IF Expired(l.total_time, limit)
                 THEN [q EXCEPT !.pc = "done", !.outcome = "timed_out"]
               ELSE [q EXCEPT !.pc = "sleep"]
          [] o = "poll_for_finished_run" ->
               IF answer = Met
                 THEN [q EXCEPT !.pc = "done", !.outcome = "returned"]
               ELSE [q EXCEPT !.pc = "sleep"]
          [] o = "poll_for_event" ->
               IF answer = Met
                 THEN [q EXCEPT !.pc = "done", !.outcome = "returned"]
               ELSE IF Expired(l.total_time + l.interval, limit)
                 THEN [q EXCEPT !.pc = "done", !.outcome = "timed_out",
                                !.total_time = @ + l.interval,
                                !.interval = NextInterval(@)]
               ELSE [q EXCEPT !.pc = "sleep",
                              !.total_time = @ + l.interval,
                              !.interval = NextInterval(@)]
          [] OTHER ->
               IF Classify(answer) # "continue"
                 THEN [q EXCEPT !.pc = "done", !.outcome = Classify(answer),
                                !.total_time = time]
               ELSE IF TimedOut(limit, 0, time)
                 THEN [q EXCEPT !.pc = "done", !.outcome = "timeout",
                                !.total_time = time]
               ELSE [q EXCEPT !.pc = "sleep", !.total_time = time]

\* What a poller does when its sleep has ended, up to its next query
AfterSleep(o, l, limit) ==
    CASE o = "wait_for_runs_to_finish" ->
           [l EXCEPT !.pc = "query",
                     !.total_time = @ + l.interval,
                     !.interval = NextInterval(@)]
      [] o = "poll_for_finished_run" ->
           IF Expired(l.total_time + l.interval, limit)
             THEN [l EXCEPT !.pc = "done", !.outcome = "timed_out",
                            !.total_time = @ + l.interval]
             ELSE [l EXCEPT !.pc = "query", !.total_time = @ + l.interval]
      [] OTHER -> [l EXCEPT !.pc = "query"]

\* The call running alone: its sleeps are the only thing that takes time.
\* The result is where the call stands when `answers` are used up.
RECURSIVE RunAlone(_, _, _, _, _)
RunAlone(o, limit, l, answers, time) ==
    IF l.pc = "done" THEN l
    ELSE IF l.pc = "sleep"
      THEN RunAlone(o, limit, AfterSleep(o, l, limit), answers,
                    time + l.interval)
    ELSE IF answers = <<>> THEN l
    ELSE RunAlone(o, limit, AfterQuery(o, l, limit, Head(answers), time),
                  Tail(answers), time)

\* LocalsOf with one frame shared by all calls
LocalsShared(i) == 1

\* total_time and interval (backoff) are locals of the function that polls
\* (lines 206-207, 230-231, 265-266), start and state locals of
\* sync_and_poll (lines 316-319): every call has a frame of its own
LocalsOf(i) == i

\* the locals of the call of thread i
Locals(i) ==
    [pc |-> threads[i].pc,
     nQueries |-> threads[i].nQueries,
     outcome |-> threads[i].outcome,
     total_time |-> frames[LocalsOf(i)].total_time,
     interval |-> frames[LocalsOf(i)].interval]

\* thread i goes on with the locals l
Proceed(i, l) ==
    /\ threads' = [threads EXCEPT ![i].pc = l.pc,
                                  ![i].nQueries = l.nQueries,
                                  ![i].outcome = l.outcome]
    /\ frames' = [frames EXCEPT ![LocalsOf(i)] =
                    [total_time |-> l.total_time, interval |-> l.interval]]

\* whether thread i can take a step without time passing
Runnable(i) ==
    \/ threads[i].pc = "sleep"
    \/ threads[i].pc = "query" /\ threads[i].nQueries < Len(threads[i].answers)
    \/ threads[i].pc = "asleep" /\ threads[i].wake <= monotonic

\* lines 212, 244, 270, 329: thread i queries its provider
ThreadQuery(i) ==
    /\ op = "threads"
    /\ threads[i].pc = "query"
    /\ threads[i].nQueries < Len(threads[i].answers)
    /\ Proceed(i, AfterQuery(threads[i].op, Locals(i), threads[i].timeout,
                             threads[i].answers[threads[i].nQueries + 1],
                             monotonic))
    /\ UNCHANGED <<op, pc, outcome, clock, monotonic, cacheVars, stepVars,
                   airbyteVars, localVars,
                   returnVars,
                   utilVars>>

\* lines 219, 248, 269, 328: thread i calls time.sleep
ThreadSleep(i) ==
    /\ op = "threads"
    /\ threads[i].pc = "sleep"
    /\ threads' = [threads EXCEPT
                     ![i].pc = "asleep",
                     ![i].wake = monotonic + frames[LocalsOf(i)].interval]
    /\ UNCHANGED <<op, pc, outcome, clock, frames, monotonic, cacheVars,
                   stepVars, airbyteVars, localVars,
                   returnVars,
                   utilVars>>

\* thread i returns from time.sleep
ThreadWake(i) ==
    /\ op = "threads"
    /\ threads[i].pc = "asleep"
    /\ threads[i].wake <= monotonic
    /\ Proceed(i, AfterSleep(threads[i].op, [Locals(i) EXCEPT !.pc = "sleep"],
                             threads[i].timeout))
    /\ UNCHANGED <<op, pc, outcome, clock, monotonic, cacheVars, stepVars,
                   airbyteVars, localVars,
                   returnVars,
                   utilVars>>

\* Time passes while every thread sleeps (or has ended), up to the moment
\* the first sleeper is due.
Tick ==
    /\ op = "threads"
    /\ \A i \in ThreadIds : ~Runnable(i)
    /\ \E i \in ThreadIds :
         /\ threads[i].pc = "asleep"
         /\ \A j \in ThreadIds :
              threads[j].pc = "asleep" => threads[i].wake <= threads[j].wake
         /\ monotonic' = threads[i].wake
    /\ UNCHANGED <<op, pc, outcome, clock, threads, frames, cacheVars,
                   stepVars, airbyteVars, localVars,
                   returnVars,
                   utilVars>>

----------------------------------------------------------------------------

(* MockedRunLauncher *)

MaxLaunches == 3

\* run.status of a run handed to launch_run: STARTING, or anything else
LaunchStatuses == {"STARTING", "STARTED"}

LaunchRuns == [run_id : RunIds, status : LaunchStatuses]

\* LaunchResult without the test of bad_user_code_run_ids
LaunchResultNoUserCodeCheck(run, bad, bad_user_code) ==
    IF run.status # "STARTING" THEN "CheckError"
    ELSE IF run.run_id \in bad THEN "Exception"
    ELSE "returned"

\* lines 353-359: what launch_run raises, if anything
LaunchResult(run, bad, bad_user_code) ==
    IF run.status # "STARTING" THEN "CheckError"
    ELSE IF run.run_id \in bad THEN "Exception"
    ELSE IF run.run_id \in bad_user_code THEN "DagsterUserCodeUnreachableError"
    ELSE "returned"

\* lines 350-363
LaunchRun(run) ==
    /\ op = "launch_run"
    /\ Len(launches) < MaxLaunches
    /\ LET result == LaunchResult(run, bad_run_ids, bad_user_code_run_ids)
       IN  /\ launches' = Append(launches, [run |-> run, result |-> result])
           /\ IF result = "returned"
                THEN /\ queue' = Append(queue, run)
                     /\ launched_run_ids' = launched_run_ids \cup {run.run_id}
                ELSE UNCHANGED <<queue, launched_run_ids>>
    /\ UNCHANGED <<op, pc, outcome, clock, bad_run_ids, bad_user_code_run_ids,
                   airbyteVars, localVars, cacheVars, stepVars, threadVars,
                   returnVars, futureVars, timezoneVars>>

\* lines 365-366
Queue == queue

\* lines 368-369
DidRunLaunch(id) == id \in launched_run_ids

----------------------------------------------------------------------------

(* wait_for_futures *)

MaxFutures == 3

\* The target ids of a dict of n futures, in dict order.
TargetIds(n) == [k \in 1..n |-> k]

\* A future is running, or done: finished with a result or with an
\* exception raised by its callable.
FutureStates == {"running", "finished", "raised"}

\* the sequence `seq` without the element x
Without(seq, x) == SelectSeq(seq, LAMBDA y : y # x)

\* ShouldWait calling result() on every future
ShouldWaitAlways(s) == TRUE

\* line 614: `if not future.done()`
ShouldWait(s) == s = "running"

\* the future the loop is at
Current == futures_copy[target + 1]

\* A running future ends, in a thread of its executor, at any moment.
FutureEnds(id, how) ==
    /\ op = "wait_for_futures"
    /\ id \in DOMAIN future_state
    /\ future_state[id] = "running"
    /\ future_state' = [future_state EXCEPT ![id] = how]
    /\ UNCHANGED <<op, pc, outcome, clock, futures, futures_copy, target,
                   waited, futures_timeout, airbyteVars, localVars, cacheVars,
                   stepVars, threadVars, returnVars, launcherVars,
                   timezoneVars>>

\* lines 609-614: the next entry of the copy and the test of future.done()
VisitFuture ==
    /\ op = "wait_for_futures"
    /\ pc = "visit"
    /\ target < Len(futures_copy)
    /\ waited' = IF future_state[Current] = "running"
                 THEN waited \cup {Current} ELSE waited
    /\ IF ShouldWait(future_state[Current])
         THEN pc' = "result" /\ target' = target
         ELSE pc' = "visit" /\ target' = target + 1
    /\ UNCHANGED <<op, outcome, clock, futures, futures_copy, future_state,
                   futures_timeout, airbyteVars, localVars, cacheVars,
                   stepVars, threadVars, returnVars, launcherVars,
                   timezoneVars>>

\* lines 615-616: future.result(timeout=future_timeout) returns and the
\* entry is deleted
ResultReturns ==
    /\ op = "wait_for_futures"
    /\ pc = "result"
    /\ future_state[Current] = "finished"
    /\ futures' = Without(futures, Current)
    /\ target' = target + 1
    /\ pc' = "visit"
    /\ UNCHANGED <<op, outcome, clock, futures_copy, future_state, waited,
                   futures_timeout, airbyteVars, localVars, cacheVars,
                   stepVars, threadVars, returnVars, launcherVars,
                   timezoneVars>>

\* line 615: future.result raises the exception of the future, or
\* TimeoutError when a timeout was given and the future is still running
\* as it runs out; the exception leaves wait_for_futures
ResultRaises ==
    /\ op = "wait_for_futures"
    /\ pc = "result"
    /\ \/ future_state[Current] = "raised" /\ outcome' = "future_exception"
       \/ /\ future_state[Current] = "running"
          /\ futures_timeout # NoTimeout
          /\ outcome' = "TimeoutError"
    /\ pc' = "done"
    /\ UNCHANGED <<op, clock, futures, futures_copy, future_state, target,
                   waited, futures_timeout, airbyteVars, localVars, cacheVars,
                   stepVars, threadVars, returnVars, launcherVars,
                   timezoneVars>>

\* the loop of line 609 has visited every entry of the copy
WaitForFuturesReturns ==
    /\ op = "wait_for_futures"
    /\ pc = "visit"
    /\ target = Len(futures_copy)
    /\ pc' = "done"
    /\ outcome' = "returned"
    /\ UNCHANGED <<op, clock, futureVars, airbyteVars, localVars, cacheVars,
                   stepVars, threadVars, returnVars, launcherVars,
                   timezoneVars>>

----------------------------------------------------------------------------

(* mock_system_timezone and get_mocked_system_timezone *)

MaxTzDepth == 3

\* the override_timezone arguments
Timezones == {"US/Central", "US/Pacific", "Europe/Berlin"}

\* lines 459-461: entering `with mock_system_timezone(override_timezone):`
MockSystemTimezoneEnter(override_timezone) ==
    /\ op = "mock_system_timezone"
    /\ Len(tz_contexts) < MaxTzDepth
    /\ tz_contexts' = Append(tz_contexts, override_timezone)
    /\ mocked_system_timezone' = override_timezone
    /\ UNCHANGED <<op, pc, outcome, clock, observed_timezone, airbyteVars,
                   localVars, cacheVars, stepVars, threadVars, returnVars,
                   launcherVars, futureVars>>

\* TimezoneAfterExit putting back the override of the enclosing context
TimezoneAfterExitRestoring(contexts) ==
    IF Len(contexts) > 1 THEN contexts[Len(contexts) - 1] ELSE None

\* line 464, in the `finally` clause: the value is set to None
TimezoneAfterExit(contexts) == None

\* lines 463-464: leaving the `with` block, normally or by an exception
MockSystemTimezoneExit(by_exception) ==
    /\ op = "mock_system_timezone"
    /\ tz_contexts # <<>>
    /\ tz_contexts' = SubSeq(tz_contexts, 1, Len(tz_contexts) - 1)
    /\ mocked_system_timezone' = TimezoneAfterExit(tz_contexts)
    /\ UNCHANGED <<op, pc, outcome, clock, observed_timezone, airbyteVars,
                   localVars, cacheVars, stepVars, threadVars, returnVars,
                   launcherVars, futureVars>>

\* lines 467-468
GetMockedSystemTimezone ==
    /\ op = "mock_system_timezone"
    /\ observed_timezone' = mocked_system_timezone
    /\ UNCHANGED <<op, pc, outcome, clock, mocked_system_timezone,
                   tz_contexts, airbyteVars, localVars, cacheVars, stepVars,
                   threadVars, returnVars, launcherVars, futureVars>>

----------------------------------------------------------------------------

(* Specifications *)

\* the values of the variables an invocation does not use
ForwardIdle ==
    /\ forward_logs = FALSE
    /\ job_attempt_limit = 0
    /\ job_attempts = <<>>
    /\ logged_attempts = 0
    /\ logged_lines = 0
    /\ written = <<>>

CacheIdle ==
    /\ cache_enabled = 0
    /\ request_cache = EmptyCache
    /\ nUnderlying = NoRequests
    /\ cached_call = NoCall
    /\ nCalls = 0
    /\ active_contexts = 0

\* no thread has been started
ThreadIdle == threads = <<>> /\ frames = <<>> /\ monotonic = 0

\* make_request has not been called on its own
ReturnIdle == response = None /\ return_value = NoValue

\* no MockedRunLauncher has been made
LauncherIdle ==
    /\ queue = <<>>
    /\ launched_run_ids = {}
    /\ bad_run_ids = {}
    /\ bad_user_code_run_ids = {}
    /\ launches = <<>>

\* wait_for_futures has not been called
FutureIdle ==
    /\ futures = <<>>
    /\ futures_copy = <<>>
    /\ future_state = <<>>
    /\ target = 0
    /\ waited = {}
    /\ futures_timeout = NoTimeout

\* line 454: the module-level dict as it is when the module is loaded
TimezoneIdle ==
    /\ mocked_system_timezone = None
    /\ tz_contexts = <<>>
    /\ observed_timezone = NoValue

UtilIdle == LauncherIdle /\ FutureIdle /\ TimezoneIdle

OtherIdle ==
    CacheIdle /\ step_name = None /\ ThreadIdle /\ ReturnIdle /\ UtilIdle

AirbyteIdle ==
    /\ request_max_retries = 0
    /\ request_retry_delay = 0
    /\ cancel_sync_on_run_termination = FALSE
    /\ req = "idle"
    /\ num_retries = 0
    /\ attempts = 0
    /\ retry_sleeps = 0
    /\ poll_interval = 0
    /\ poll_timeout = NoTimeout
    /\ start = 0
    /\ state = None
    /\ primary = "none"
    /\ nStatusQueries = 0
    /\ nNonTerminal = 0
    /\ nCancelRequests = 0
    /\ ForwardIdle

LocalIdle ==
    /\ timeout = 0
    /\ total_time = 0
    /\ interval = 0
    /\ run_id = None
    /\ run_tags = {}
    /\ event_type = None
    /\ message = NoMessage
    /\ runs = <<>>
    /\ logs = <<>>
    /\ nQueries = 0
    /\ slept = 0
    /\ last_sleep = 0

\* AirbyteResource(...).make_request(endpoint, data)
InitMakeRequest ==
    /\ op = "make_request"
    /\ pc = "make_request"
    /\ outcome = "none"
    /\ clock = 0
    /\ request_max_retries \in -1..MaxRequestRetries
    /\ request_retry_delay = RetryDelay
    /\ cancel_sync_on_run_termination \in {FALSE}
    /\ req = "idle"
    /\ num_retries = 0
    /\ attempts = 0
    /\ retry_sleeps = 0
    /\ poll_interval = 0
    /\ poll_timeout = NoTimeout
    /\ start = 0
    /\ state = None
    /\ primary = "none"
    /\ nStatusQueries = 0
    /\ nNonTerminal = 0
    /\ nCancelRequests = 0
    /\ ForwardIdle
    /\ LocalIdle
    /\ OtherIdle

\* AirbyteResource(...).sync_and_poll(connection_id, poll_interval, poll_timeout)
\* on a job whose details carry no attempts
InitSyncAndPoll ==
    /\ op = "sync_and_poll"
    /\ pc = "get_connection_details"
    /\ outcome = "none"
    /\ clock = 0
    /\ request_max_retries \in 0..MaxRetries
    /\ request_retry_delay = RetryDelay
    /\ cancel_sync_on_run_termination \in BOOLEAN
    /\ req = "idle"
    /\ num_retries = 0
    /\ attempts = 0
    /\ retry_sleeps = 0
    /\ poll_interval \in 1..MaxPollInterval
    /\ poll_timeout \in {NoTimeout} \cup 0..MaxPollTimeout
    /\ start = 0
    /\ state = None
    /\ primary = "none"
    /\ nStatusQueries = 0
    /\ nNonTerminal = 0
    /\ nCancelRequests = 0
    /\ forward_logs = TRUE
    /\ job_attempt_limit = 0
    /\ job_attempts = <<>>
    /\ logged_attempts = 0
    /\ logged_lines = 0
    /\ written = <<>>
    /\ LocalIdle
    /\ OtherIdle

\* sync_and_poll on a job that makes up to MaxJobAttempts attempts, with
\* and without forward_logs; no retries, no poll_timeout
InitSyncLogs ==
    /\ op = "sync_and_poll"
    /\ pc = "get_connection_details"
    /\ outcome = "none"
    /\ clock = 0
    /\ request_max_retries = 0
    /\ request_retry_delay = RetryDelay
    /\ cancel_sync_on_run_termination = TRUE
    /\ req = "idle"
    /\ num_retries = 0
    /\ attempts = 0
    /\ retry_sleeps = 0
    /\ poll_interval = 1
    /\ poll_timeout = NoTimeout
    /\ start = 0
    /\ state = None
    /\ primary = "none"
    /\ nStatusQueries = 0
    /\ nNonTerminal = 0
    /\ nCancelRequests = 0
    /\ forward_logs \in BOOLEAN
    /\ job_attempt_limit = MaxJobAttempts
    /\ job_attempts = <<>>
    /\ logged_attempts = 0
    /\ logged_lines = 0
    /\ written = <<>>
    /\ LocalIdle
    /\ OtherIdle

\* lines 206-207, 230-231, 265-266
InitLocal ==
    /\ op \in {"wait_for_runs_to_finish", "poll_for_finished_run", "poll_for_event"}
    /\ pc = IF op = "poll_for_event" THEN "sleep" ELSE "query"
    /\ outcome = "none"
    /\ clock = 0
    /\ timeout \in 0..MaxTimeout
    /\ total_time = 0
    /\ interval = IF op = "wait_for_runs_to_finish" THEN WaitInterval ELSE PollInterval
    /\ run_id \in IF op = "poll_for_finished_run" THEN RunIds \cup {None} ELSE {None}
    /\ run_tags \in IF op = "poll_for_event" THEN {{}} ELSE SUBSET Tags
    /\ event_type \in IF op = "poll_for_event" THEN {"STEP_START"} ELSE {None}
    /\ message \in IF op = "poll_for_event" THEN MessageFilters ELSE {NoMessage}
    /\ runs = <<>>
    /\ logs = <<>>
    /\ nQueries = 0
    /\ slept = 0
    /\ last_sleep = 0
    /\ AirbyteIdle
    /\ OtherIdle

\* lines 98-100: a new AirbyteResource, used by a caller that enters and
\* leaves cache_requests contexts and calls make_request_cached
InitCache ==
    /\ op = "cache_requests"
    /\ pc = "caller"
    /\ outcome = "none"
    /\ clock = 0
    /\ CacheIdle
    /\ ThreadIdle
    /\ ReturnIdle
    /\ UtilIdle
    /\ step_name = None
    /\ AirbyteIdle
    /\ LocalIdle

\* step_did_not_run / step_succeeded / step_failed (instance, run, step_name)
\* on an instance whose all_logs(run.run_id) is `logs`
InitSteps ==
    /\ op \in {"step_did_not_run", "step_succeeded", "step_failed"}
    /\ pc = "call"
    /\ outcome = "none"
    /\ clock = 0
    /\ step_name \in StepKeys
    /\ logs \in StepLogs
    /\ timeout = 0
    /\ total_time = 0
    /\ interval = 0
    /\ run_id = None
    /\ run_tags = {}
    /\ event_type = None
    /\ message = NoMessage
    /\ runs = <<>>
    /\ nQueries = 0
    /\ slept = 0
    /\ last_sleep = 0
    /\ CacheIdle
    /\ ThreadIdle
    /\ ReturnIdle
    /\ UtilIdle
    /\ AirbyteIdle

\* the calls a thread can make, each with what its provider will answer
ThreadCalls ==
    UNION {[op : {o}, timeout : ThreadTimeouts(o), answers : AnswerSeqs(o),
            pc : {FirstPc(o)}, nQueries : {0}, outcome : {"none"},
            wake : {0}] : o \in Pollers}

\* two threads, each about to call a poller, started at the same time
InitThreads ==
    /\ op = "threads"
    /\ pc = "running"
    /\ outcome = "none"
    /\ clock = 0
    /\ threads \in [ThreadIds -> ThreadCalls]
    /\ frames = [i \in ThreadIds |-> FirstFrame(threads[i].op)]
    /\ monotonic = 0
    /\ CacheIdle
    /\ ReturnIdle
    /\ UtilIdle
    /\ step_name = None
    /\ AirbyteIdle
    /\ LocalIdle

\* lines 336-348: a new MockedRunLauncher with any bad_run_ids and
\* bad_user_code_run_ids, about to be handed runs
InitLauncher ==
    /\ op = "launch_run"
    /\ pc = "caller"
    /\ outcome = "none"
    /\ clock = 0
    /\ queue = <<>>
    /\ launched_run_ids = {}
    /\ bad_run_ids \in SUBSET RunIds
    /\ bad_user_code_run_ids \in SUBSET RunIds
    /\ launches = <<>>
    /\ FutureIdle
    /\ TimezoneIdle
    /\ CacheIdle
    /\ ReturnIdle
    /\ ThreadIdle
    /\ step_name = None
    /\ AirbyteIdle
    /\ LocalIdle

\* lines 607-609: wait_for_futures(futures, timeout) called on a dict of up
\* to MaxFutures futures, each running or done; the copy has been taken
InitFutures ==
    /\ op = "wait_for_futures"
    /\ pc = "visit"
    /\ outcome = "none"
    /\ clock = 0
    /\ \E n \in 0..MaxFutures :
         /\ futures = TargetIds(n)
         /\ future_state \in [1..n -> FutureStates]
    /\ futures_copy = futures
    /\ target = 0
    /\ waited = {}
    /\ futures_timeout \in {NoTimeout, 0}
    /\ LauncherIdle
    /\ TimezoneIdle
    /\ CacheIdle
    /\ ReturnIdle
    /\ ThreadIdle
    /\ step_name = None
    /\ AirbyteIdle
    /\ LocalIdle

\* line 454: the module has been loaded; a caller is about to enter and
\* leave mock_system_timezone contexts and to read the value
InitTimezone ==
    /\ op = "mock_system_timezone"
    /\ pc = "caller"
    /\ outcome = "none"
    /\ clock = 0
    /\ TimezoneIdle
    /\ LauncherIdle
    /\ FutureIdle
    /\ CacheIdle
    /\ ReturnIdle
    /\ ThreadIdle
    /\ step_name = None
    /\ AirbyteIdle
    /\ LocalIdle

Init ==
    \/ InitMakeRequest
    \/ InitSyncAndPoll
    \/ InitSyncLogs
    \/ InitLocal
    \/ InitCache
    \/ InitSteps
    \/ InitThreads
    \/ InitLauncher
    \/ InitFutures
    \/ InitTimezone

NextSync ==
    \/ \E resp \in Responses : GetConnectionDetails(resp)
    \/ \E resp \in Responses : StartSync(resp)
    \/ CheckTimeout
    \/ Sleep
    \/ \E resp \in Responses, status \in JobStatuses,
          atts \in Grown(job_attempts, job_attempt_limit) :
            GetJobStatus(resp, status, atts)
    \/ ClassifyState
    \/ Interrupt
    \/ Finally
    \/ \E resp \in Responses : CancelJob(resp)

NextAirbyte ==
    \/ \E resp \in Responses : MakeRequestCall(resp)
    \/ NextSync

NextCache ==
    \/ CacheRequestsEnter
    \/ \E by_exception \in BOOLEAN : CacheRequestsExit(by_exception)
    \/ \E endpoint \in Endpoints, data \in DataValues,
          result \in ReturnValues \cup {RequestFailure} :
            MakeRequestCached(endpoint, data, result)

NextSteps == StepDidNotRun \/ StepSucceeded \/ StepFailed

NextLocal ==
    \/ \E store \in RunStores : WaitForRunsQuery(store)
    \/ WaitForRunsSleep
    \/ \E store \in RunStores : PollForFinishedRunQuery(store)
    \/ PollForFinishedRunSleep
    \/ PollForEventSleep
    \/ \E ls \in LogSnapshots : PollForEventQuery(ls)

NextThreads ==
    \/ \E i \in ThreadIds : ThreadQuery(i)
    \/ \E i \in ThreadIds : ThreadSleep(i)
    \/ \E i \in ThreadIds : ThreadWake(i)
    \/ Tick

NextLauncher == \E run \in LaunchRuns : LaunchRun(run)

NextFutures ==
    \/ \E id \in 1..MaxFutures, how \in {"finished", "raised"} :
         FutureEnds(id, how)
    \/ VisitFuture
    \/ ResultReturns
    \/ ResultRaises
    \/ WaitForFuturesReturns

NextTimezone ==
    \/ \E tz \in Timezones : MockSystemTimezoneEnter(tz)
    \/ \E by_exception \in BOOLEAN : MockSystemTimezoneExit(by_exception)
    \/ GetMockedSystemTimezone

Next ==
    \/ NextAirbyte
    \/ NextLocal
    \/ NextCache
    \/ NextSteps
    \/ NextThreads
    \/ NextLauncher
    \/ NextFutures
    \/ NextTimezone

Spec == Init /\ [][Next]_vars

\* make_request and sync_and_poll alone
InitAirbyte == InitMakeRequest \/ InitSyncAndPoll
SpecAirbyte == InitAirbyte /\ [][NextAirbyte]_vars

\* the local pollers alone
SpecLocal == InitLocal /\ [][NextLocal]_vars

\* sync_and_poll on a job with attempts and log lines
SpecLogs == InitSyncLogs /\ [][NextSync]_vars

\* the request cache alone
SpecCache == InitCache /\ [][NextCache]_vars

\* the step helpers alone
SpecSteps == InitSteps /\ [][NextSteps]_vars

\* pollers in two threads
SpecThreads == InitThreads /\ [][NextThreads]_vars

\* a MockedRunLauncher alone
SpecLauncher == InitLauncher /\ [][NextLauncher]_vars

\* wait_for_futures alone
SpecFutures == InitFutures /\ [][NextFutures]_vars

\* mock_system_timezone alone
SpecTimezone == InitTimezone /\ [][NextTimezone]_vars

\* The invocation runs in a thread that is scheduled again and again:
\* time.sleep returns, and every HTTP attempt returns or raises (it is
\* sent with timeout=request_timeout), as does every query of the instance.
FairAirbyte == SpecAirbyte /\ WF_vars(NextAirbyte)
FairLocal == SpecLocal /\ WF_vars(NextLocal)

----------------------------------------------------------------------------
(* Properties of sync_and_poll *)

\* The statuses of a job that still runs, and the Failure each other status
\* stands for, as the specification lists them.
StillRunning == {"running", "pending", "incomplete"}
ExpectedExit(s) ==
    CASE s = "succeeded" -> "returned"
      [] s = "error" -> "job_failed"
      [] s = "cancelled" -> "job_cancelled"
      [] OTHER -> "unexpected_state"

\* C1: in sync_and_poll the step that classifies a polled status goes back
\* to the loop for running, pending and incomplete, leaves the loop to
\* return for succeeded, raises 'Job failed' for error, 'Job was cancelled'
\* for cancelled and 'unexpected state' for every other value (failed, a
\* missing status), and once the loop is left no status query is sent.
C1_StatusClassification ==
    [][/\ (op = "sync_and_poll" /\ pc = "classify" /\ primary' # "interrupted")
            => IF state \in StillRunning
                 THEN pc' = "loop" /\ primary' = "none"
                 ELSE pc' = "finally" /\ primary' = ExpectedExit(state)
       /\ (op = "sync_and_poll" /\ primary # "none")
            => nStatusQueries' = nStatusQueries]_vars

\* C1 witness: a polled status `failed` has left the loop as an unexpected state
C1_Witness ==
    /\ op = "sync_and_poll"
    /\ pc = "finally"
    /\ state = FAILED
    /\ primary = "unexpected_state"
    /\ nStatusQueries = 2

\* C2: sync_and_poll calls cancel_job at most once, only after the try
\* block was left, and by the time it ends it has called it exactly once if
\* the try block was left with a last observed status other than succeeded,
\* error, cancelled and cancel_sync_on_run_termination is set, and not at
\* all otherwise.
C2_CancelOnExit ==
    op = "sync_and_poll" =>
        /\ nCancelRequests <= 1
        /\ pc \notin {"cancel_job", "done"} => nCancelRequests = 0
        /\ pc \in {"cancel_job", "done"} =>
             nCancelRequests =
               IF /\ primary # "none"
                  /\ state \notin {"succeeded", "error", "cancelled"}
                  /\ cancel_sync_on_run_termination
               THEN 1 ELSE 0

\* C2 witness: the loop was left by a timeout on a running job and the
\* invocation ended after one cancel request
C2_Witness ==
    /\ op = "sync_and_poll"
    /\ pc = "done"
    /\ primary = "timeout"
    /\ state = RUNNING
    /\ nCancelRequests = 1

\* C3: when sync_and_poll ends after a timeout, a job failure or an
\* unexpected state, the caller receives that error, also when the cancel
\* request of the exit path fails.
C3_CancelFailureNotEscalated ==
    (/\ op = "sync_and_poll"
     /\ pc = "done"
     /\ primary \in {"timeout", "job_failed", "job_cancelled", "unexpected_state"})
        => outcome = primary

\* C4: when sync_and_poll has left the loop to return, the last status it
\* fetched is succeeded, every status query before that one was answered
\* with running, pending or incomplete (k of them, so k+1 queries in all),
\* no cancel request is sent, and the caller receives the normal return;
\* the query that fetched succeeded is already the (k+1)-th.
C4_ReturnsOnFirstSucceeded ==
    op = "sync_and_poll" =>
        /\ primary = "returned" =>
             /\ state = "succeeded"
             /\ nStatusQueries = nNonTerminal + 1
             /\ nCancelRequests = 0
             /\ pc \in {"finally", "done"}
             /\ pc = "done" => outcome = "returned"
        /\ (pc = "classify" /\ state = "succeeded") =>
             nStatusQueries = nNonTerminal + 1

\* C4 witness: running, running, succeeded has returned after 3 queries
C4_Witness ==
    /\ op = "sync_and_poll"
    /\ pc = "done"
    /\ outcome = "returned"
    /\ nNonTerminal = 2
    /\ nStatusQueries = 3

\* C5: when sync_and_poll has left the loop because of a job failure or a
\* cancelled job, the last status fetched is error resp. cancelled, it was
\* fetched by the query after the k queries answered with running, pending
\* or incomplete, no cancel request is sent and the caller receives that
\* Failure.
C5_FailedJobNotCancelled ==
    op = "sync_and_poll" =>
        /\ primary = "job_failed" => state = "error"
        /\ primary = "job_cancelled" => state = "cancelled"
        /\ primary \in {"job_failed", "job_cancelled"} =>
             /\ nStatusQueries = nNonTerminal + 1
             /\ nCancelRequests = 0
             /\ pc \in {"finally", "done"}
             /\ pc = "done" => outcome = primary

\* C5 witness: running, error has raised 'Job failed' after 2 queries
C5_Witness ==
    /\ op = "sync_and_poll"
    /\ pc = "done"
    /\ outcome = "job_failed"
    /\ cancel_sync_on_run_termination
    /\ nNonTerminal = 1
    /\ nStatusQueries = 2

----------------------------------------------------------------------------
(* Properties of make_request *)

\* C6: with request_max_retries = n >= 0, a make_request call never makes
\* more than n+1 HTTP attempts; while all its attempts so far have raised it
\* has slept request_retry_delay once after each of them; and when it raises
\* 'Max retries exceeded' it has made exactly n+1 attempts and slept exactly
\* n times, none of them after the last attempt.
C6_RetriesThenFailure ==
    request_max_retries >= 0 =>
        /\ attempts <= request_max_retries + 1
        /\ req = "inflight" =>
             /\ attempts <= request_max_retries
             /\ retry_sleeps = attempts
        /\ req = "failed" =>
             /\ attempts = request_max_retries + 1
             /\ retry_sleeps = request_max_retries
        /\ (op = "make_request" /\ req \in {"inflight", "failed"}) =>
             clock = retry_sleeps * request_retry_delay

\* C6 witness: request_max_retries = 3, 4 attempts, 3 sleeps, Failure
C6_Witness ==
    /\ op = "make_request"
    /\ request_max_retries = 3
    /\ outcome = "max_retries"
    /\ attempts = 4
    /\ retry_sleeps = 3

----------------------------------------------------------------------------
(* Properties of the pollers *)

\* Whether the query that ended a local poller found what it waits for
TerminalObserved ==
    CASE op = "wait_for_runs_to_finish" ->
           \A i \in 1..Len(runs) : runs[i].status \in {"SUCCESS", "FAILURE", "CANCELED"}
      [] op = "poll_for_finished_run" ->
           /\ runs # <<>>
           /\ runs[1].status \in {"SUCCESS", "FAILURE", "CANCELED"}
      [] op = "poll_for_event" ->
           \E i \in 1..Len(logs) :
               /\ logs[i].is_dagster_event
               /\ logs[i].event_type_value = event_type
               /\ \/ message = NoMessage
                  \/ /\ logs[i].message \notin {NoMessage, <<>>}
                     /\ Contains(message, logs[i].message)
      [] OTHER -> FALSE

\* C7: for every timeout >= 0 each of wait_for_runs_to_finish,
\* poll_for_finished_run and poll_for_event ends after finitely many
\* iterations; it ends with 'Timed out' unless its last query found what it
\* waits for; and when it raises 'Timed out' the time it has slept is
\* greater than the timeout and exceeds it by at most the last sleep.
C7_LocalPollersTimeOut ==
    /\ <>(pc = "done")
    /\ [](pc = "done" => outcome \in {"returned", "timed_out"})
    /\ []((pc = "done" /\ ~TerminalObserved) => outcome = "timed_out")
    /\ [](outcome = "timed_out" =>
            /\ nQueries >= 1
            /\ total_time = slept
            /\ slept > timeout
            /\ slept - last_sleep <= timeout)

\* C7 witness: poll_for_event with timeout 0.05 s has slept 0.01 + 0.02 +
\* 0.04 s and timed out
C7_Witness ==
    /\ op = "poll_for_event"
    /\ timeout = 5
    /\ outcome = "timed_out"
    /\ slept = 7
    /\ last_sleep = 4
    /\ nQueries = 3

\* C8: with a positive poll_timeout sync_and_poll ends; the Timeout Failure
\* is raised only by the check at the start of an iteration and only when
\* more than poll_timeout has passed since `start`, at most poll_interval
\* plus the time of the last status query more; the sleep and the query of
\* an iteration run only if no more than poll_timeout had passed at its
\* start; and an invocation that leaves the loop with a job still running,
\* pending or incomplete, with no failed request and no interrupt, leaves it
\* by the Timeout Failure.
C8_TimeoutAtIterationStart ==
    /\ (op = "sync_and_poll" /\ poll_timeout > 0) => <>(pc = "done")
    /\ [][(op = "sync_and_poll" /\ primary' = "timeout" /\ primary # "timeout")
            => /\ pc = "loop"
               /\ clock' = clock
               /\ nStatusQueries >= 1]_vars
    /\ []((op = "sync_and_poll" /\ primary = "timeout") =>
            /\ poll_timeout > 0
            /\ clock - start > poll_timeout
            /\ pc = "finally" =>
                 clock - start - poll_timeout
                   <= poll_interval + retry_sleeps * request_retry_delay)
    /\ []((op = "sync_and_poll" /\ pc = "sleep" /\ poll_timeout > 0) =>
            clock - start <= poll_timeout)
    /\ []((/\ op = "sync_and_poll"
           /\ poll_timeout > 0
           /\ primary \notin {"none", "max_retries", "check_error", "interrupted"}
           /\ state \in StillRunning)
            => primary = "timeout")

\* C8 witness: poll_timeout 2, poll_interval 2, the second status query
\* retried once: the Timeout Failure is raised 3 ticks after the deadline
C8_Witness ==
    /\ op = "sync_and_poll"
    /\ pc = "finally"
    /\ primary = "timeout"
    /\ poll_timeout = 2
    /\ poll_interval = 2
    /\ retry_sleeps = 1
    /\ nStatusQueries = 2
    /\ clock - start = 5

\* C9: with poll_timeout = None sync_and_poll never raises the Timeout
\* Failure: every deadline check goes on to the sleep, whatever time has
\* passed, and the loop is left only by a status that is not running,
\* pending or incomplete, by a failed request or by an interrupt.
C9_NoTimeoutWhenNone ==
    /\ []((op = "sync_and_poll" /\ poll_timeout = NoTimeout) =>
            /\ primary # "timeout"
            /\ outcome # "timeout"
            /\ (primary \notin {"none", "max_retries", "check_error", "interrupted"})
                 => state \notin StillRunning)
    /\ [][(/\ op = "sync_and_poll"
           /\ poll_timeout = NoTimeout
           /\ pc = "loop"
           /\ primary' # "interrupted")
            => pc' = "sleep"]_vars

\* C9 witness: with poll_timeout = None the loop is still polling after
\* MaxPolls status queries, all of them answered with a running job
C9_Witness ==
    /\ op = "sync_and_poll"
    /\ poll_timeout = NoTimeout
    /\ pc = "sleep"
    /\ primary = "none"
    /\ nStatusQueries = MaxPolls
    /\ nNonTerminal = MaxPolls
    /\ clock - start >= MaxPolls

\* C10: an invocation of a poller has an outcome exactly when it has ended,
\* the outcome never changes afterwards, and the outcome is a normal return
\* only if a query of the invocation found the terminal condition: all
\* returned runs finished, a finished run returned, a matching event
\* present, or the job status succeeded.
C10_OneOutcome ==
    /\ [](pc = "done" <=> outcome # "none")
    /\ [][outcome # "none" => (outcome' = outcome /\ pc' = "done")]_vars
    /\ []((op \in {"wait_for_runs_to_finish", "poll_for_finished_run", "poll_for_event"}
             /\ outcome = "returned")
            => (nQueries >= 1 /\ TerminalObserved))
    /\ []((op = "sync_and_poll" /\ outcome = "returned")
            => (nStatusQueries >= 1 /\ state = "succeeded"))

\* C10 witness: wait_for_runs_to_finish has returned on its second query,
\* which found two runs, both finished
C10_Witness ==
    /\ op = "wait_for_runs_to_finish"
    /\ outcome = "returned"
    /\ nQueries = 2
    /\ Len(runs) = 2

----------------------------------------------------------------------------
(* Properties of the backoff of the local pollers *)


\* C11: in every local poller the first sleep lasts the seed of the poller
\* (0.1 for wait_for_runs_to_finish, 0.01 for poll_for_finished_run and
\* poll_for_event) and every later sleep lasts twice the sleep before it.
C11_SleepDoubles ==
    [][(op \in LocalPollers /\ slept' # slept)
         => last_sleep' = (IF slept = 0 THEN Seed(op) ELSE 2 * last_sleep)]_vars

\* C12: within one invocation of a local poller total_time never decreases
\* and the sleep interval never decreases from one step to the next.
C12_BackoffMonotonic ==
    [][(op \in LocalPollers)
         => (total_time' >= total_time /\ interval' >= interval)]_vars

\* C12 witness: wait_for_runs_to_finish has slept twice, its total_time has
\* grown to the sum of both sleeps and its interval to four times the seed
C12_Witness ==
    /\ op = "wait_for_runs_to_finish"
    /\ pc = "query"
    /\ nQueries = 2
    /\ total_time = 3 * WaitInterval
    /\ interval = 4 * WaitInterval

----------------------------------------------------------------------------
(* Properties of poll_for_event *)

\* C13: a query of poll_for_event makes it return exactly when the fetched
\* snapshot holds a Dagster event of the type event_type and, if message is
\* not None, one such event has a non-empty message that contains message;
\* records that are no Dagster events and events of other types never do.
C13_EventTerminal ==
    [][(op = "poll_for_event" /\ pc = "query")
         => ((outcome' = "returned") <=> TerminalObserved')]_vars

\* C13 witness: polling with a message filter has returned on a snapshot
\* whose first STEP_START event does not contain the filter and whose
\* second one does
C13_Witness ==
    /\ op = "poll_for_event"
    /\ outcome = "returned"
    /\ message = <<"b">>
    /\ Len(logs) = 2
    /\ logs[1].event_type_value = "STEP_START"
    /\ logs[1].message = <<"a">>
    /\ logs[2].event_type_value = "STEP_START"
    /\ logs[2].message = <<"a", "b">>

\* The texts of the example: 'foo started' is a text that does not contain
\* the filter, 'bar' is the filter.
FooStarted == <<"a">>
Bar == <<"b">>
IsStepStart(r) == r.is_dagster_event /\ r.event_type_value = "STEP_START"

\* C14: when the logs hold a STEP_START event with the message
\* 'foo started', poll_for_event for STEP_START with message None (which is
\* what poll_for_step_start calls) returns on its first query of the logs;
\* with message 'bar' no query returns unless the logs it fetched hold a
\* STEP_START event whose message contains 'bar'.
C14_FooStartedAndBar ==
    /\ [][(/\ op = "poll_for_event"
           /\ pc = "query"
           /\ nQueries = 0
           /\ event_type = "STEP_START"
           /\ message = NoMessage
           /\ \E i \in 1..Len(logs') : IsStepStart(logs'[i])
                                         /\ logs'[i].message = FooStarted)
            => (outcome' = "returned" /\ nQueries' = 1)]_vars
    /\ [][(/\ op = "poll_for_event"
           /\ pc = "query"
           /\ event_type = "STEP_START"
           /\ message = Bar
           /\ outcome' = "returned")
            => \E i \in 1..Len(logs') : /\ IsStepStart(logs'[i])
                                         /\ logs'[i].message # NoMessage
                                         /\ Contains(Bar, logs'[i].message)]_vars

\* C14 witness: poll_for_event with message None has returned after one
\* sleep and one query, which fetched the single 'foo started' event
C14_Witness ==
    /\ op = "poll_for_event"
    /\ outcome = "returned"
    /\ message = NoMessage
    /\ nQueries = 1
    /\ slept = PollInterval
    /\ Len(logs) = 1
    /\ IsStepStart(logs[1])
    /\ logs[1].message = FooStarted

----------------------------------------------------------------------------
(* Properties of the run pollers *)

\* C15: poll_for_finished_run returns only a run whose status is SUCCESS,
\* FAILURE or CANCELED, whose id is run_id when run_id is given and whose
\* tags include run_tags, so it never returns while its query finds no such
\* run; wait_for_runs_to_finish returns only when every run its last query
\* fetched is finished.
C15_ReturnsOnlyFinished ==
    /\ (op = "poll_for_finished_run" /\ outcome = "returned")
         => /\ Len(runs) = 1
            /\ runs[1].status \in {"SUCCESS", "FAILURE", "CANCELED"}
            /\ run_id # None => runs[1].run_id = run_id
            /\ run_tags \subseteq runs[1].tags
    /\ (op = "poll_for_finished_run" /\ outcome = "timed_out")
         => runs = <<>>
    /\ (op = "wait_for_runs_to_finish" /\ outcome = "returned")
         => \A i \in 1..Len(runs) :
               /\ runs[i].status \in {"SUCCESS", "FAILURE", "CANCELED"}
               /\ run_tags \subseteq runs[i].tags

\* C15 witness: poll_for_finished_run, given a run id and a tag, has
\* returned on its third query a failed run with that id and that tag
C15_Witness ==
    /\ op = "poll_for_finished_run"
    /\ outcome = "returned"
    /\ run_id = "r2"
    /\ run_tags = {"t"}
    /\ nQueries = 3
    /\ runs = <<[run_id |-> "r2", status |-> "FAILURE", tags |-> {"t"}]>>

----------------------------------------------------------------------------
(* The requests a poller sends *)

\* C16, as the specification states it: sync_and_poll sends a cancel
\* request only when it leaves the loop by the timeout.
C16_CancelOnlyOnTimeout ==
    (op = "sync_and_poll" /\ nCancelRequests > 0) => primary = "timeout"

\* C16: a local poller sends no request to the Airbyte API; once
\* sync_and_poll has started the sync it never starts one again, and the
\* only request it sends besides the status queries is one cancel request,
\* sent from `finally` only when the loop was left by an exception (the
\* timeout, a failed or cancelled job, an unexpected status, a failed
\* request, an interrupt) while the last polled status is none of
\* succeeded, error and cancelled and cancel_sync_on_run_termination is set.
C16_OnlyCancelAfterStart ==
    /\ []((op \in LocalPollers) => (req = "idle" /\ nCancelRequests = 0))
    /\ []((op = "sync_and_poll" /\ pc = "cancel_job") => nCancelRequests = 1)
    /\ [][(/\ op = "sync_and_poll"
           /\ pc \notin {"get_connection_details", "start_sync"})
            => pc' \notin {"get_connection_details", "start_sync"}]_vars
    /\ [][(op = "sync_and_poll" /\ nCancelRequests' # nCancelRequests)
            => /\ nCancelRequests' = 1
               /\ pc = "finally"
               /\ pc' = "cancel_job"
               /\ primary \notin {"none", "returned"}
               /\ state \notin {"succeeded", "error", "cancelled"}
               /\ cancel_sync_on_run_termination]_vars

\* C16 witness: the loop was left by an unexpected status, with no
\* poll_timeout at all, and the cancel request is being sent
C16_Witness ==
    /\ op = "sync_and_poll"
    /\ pc = "cancel_job"
    /\ poll_timeout = NoTimeout
    /\ primary = "unexpected_state"
    /\ nCancelRequests = 1

----------------------------------------------------------------------------
(* Termination of make_request *)

\* C17: when every attempt raises a RequestException, make_request leaves
\* its retry loop by raising the 'Max retries' Failure, for every integer
\* request_max_retries: num_retries, which only grows and ends the loop
\* when it equals request_max_retries, never passes request_max_retries.
C17_RetriesReachMaximum ==
    (op = "make_request" /\ req = "inflight")
      => num_retries <= request_max_retries

----------------------------------------------------------------------------
(* Properties of the request cache *)

\* C18, as the specification states it: while a cache_requests context is
\* active, contexts entered and left inside it included, at most one
\* underlying request is answered for each (endpoint, data) pair.
C18_OneRequestPerPair ==
    (op = "cache_requests" /\ cache_enabled > 0)
      => \A p \in Pairs : nUnderlying[p] <= 1

\* C18: while a cache_requests context is active and no context is entered
\* or left, a pair whose digest is cached keeps its cached response and
\* has no further underlying request sent for it, and a call for such a
\* pair sends nothing and returns the cached response, which is the
\* response of the first request answered since the cache was cleared.
C18_CachedUntilCleared ==
    /\ [][(/\ op = "cache_requests"
           /\ cache_enabled > 0
           /\ cache_enabled' = cache_enabled)
            => \A p \in Pairs :
                 request_cache[Digest(p[1], p[2])] # NotCached
                   => /\ request_cache'[Digest(p[1], p[2])]
                          = request_cache[Digest(p[1], p[2])]
                      /\ nUnderlying'[p] = nUnderlying[p]]_vars
    /\ [][(/\ op = "cache_requests"
           /\ nCalls' = nCalls + 1
           /\ cache_enabled > 0
           /\ request_cache[Digest(cached_call'.endpoint, cached_call'.data)]
                # NotCached)
            => /\ ~cached_call'.sent
               /\ cached_call'.result
                    = request_cache[Digest(cached_call'.endpoint,
                                           cached_call'.data)]]_vars
    /\ [][(/\ op = "cache_requests"
           /\ nCalls' = nCalls + 1
           /\ cache_enabled > 0
           /\ request_cache[Digest(cached_call'.endpoint, cached_call'.data)]
                = NotCached)
            => /\ cached_call'.sent
               /\ cached_call'.result # RequestFailure
                    => request_cache'[Digest(cached_call'.endpoint,
                                             cached_call'.data)]
                         = cached_call'.result]_vars

\* C18 witness: inside one context the third call, for a mapping with the
\* key "1", was answered without a request from the response cached for
\* the same endpoint and the mapping with the key 1
C18_Witness ==
    /\ op = "cache_requests"
    /\ cache_enabled = 1
    /\ nCalls = 3
    /\ cached_call.data = "str_key"
    /\ ~cached_call.sent
    /\ cached_call.result = "y"
    /\ nUnderlying[<<cached_call.endpoint, "int_key">>] = 1
    /\ nUnderlying[<<cached_call.endpoint, "str_key">>] = 0

----------------------------------------------------------------------------
(* Properties of the forwarding of log lines *)

\* line <<a, k>> comes before line <<b, l>> in the logs of the job
LineBefore(x, y) == x[1] < y[1] \/ (x[1] = y[1] /\ x[2] < y[2])

\* C19: with forward_logs, on a job whose attempts and log lines only
\* grow, sync_and_poll writes lines of the job only, each at most once and
\* in the order of the job's logs; from one poll to the next logged_lines
\* stays or grows while logged_attempts stays, and logged_lines goes back
\* to 0 only in a poll that moves logged_attempts on to the next attempt.
C19_LinesOnceInOrder ==
    /\ []((op = "sync_and_poll" /\ forward_logs)
            => /\ \A i \in 1..Len(written) :
                    /\ written[i][1] + 1 <= Len(job_attempts)
                    /\ written[i][2] <= job_attempts[written[i][1] + 1]
               /\ \A i \in 1..Len(written) : \A j \in (i + 1)..Len(written) :
                    LineBefore(written[i], written[j]))
    /\ [][(op = "sync_and_poll" /\ forward_logs)
            => \/ /\ logged_attempts' = logged_attempts
                  /\ logged_lines' >= logged_lines
               \/ /\ logged_attempts' = logged_attempts + 1
                  /\ logged_lines' = 0]_vars

\* C19 witness: the first poll wrote the line of attempt 0, the second
\* found a second attempt and moved on to it, the third wrote its line
C19_Witness ==
    /\ op = "sync_and_poll"
    /\ forward_logs
    /\ nStatusQueries = 3
    /\ job_attempts = <<1, 1>>
    /\ written = <<<<0, 1>>, <<1, 1>>>>
    /\ logged_attempts = 1
    /\ logged_lines = 1

----------------------------------------------------------------------------
(* Properties of the step helpers *)

\* whether some record of the logs with the step key s is a Dagster event
\* of the type t
HasStepEvent(s, t) ==
    \E i \in 1..Len(logs) : /\ logs[i].step_key = s
                             /\ logs[i].is_dagster_event
                             /\ logs[i].event_type_value = t

\* C20: step_succeeded(instance, run, s) is True exactly when some record
\* of the run's logs with step key s is a Dagster event of type
\* STEP_SUCCESS, step_failed exactly when one is of type STEP_FAILURE, and
\* step_did_not_run exactly when no Dagster event of the logs has step key
\* s; records without step key and records that are no Dagster events
\* change none of the three.
C20_StepHelpers ==
    /\ (op = "step_succeeded" /\ pc = "done")
         => (outcome = "True" <=> HasStepEvent(step_name, "STEP_SUCCESS"))
    /\ (op = "step_failed" /\ pc = "done")
         => (outcome = "True" <=> HasStepEvent(step_name, "STEP_FAILURE"))
    /\ (op = "step_did_not_run" /\ pc = "done")
         => (outcome = "True" <=>
               ~\E i \in 1..Len(logs) : /\ logs[i].is_dagster_event
                                        /\ logs[i].step_key = step_name)
    /\ (op \in {"step_succeeded", "step_failed", "step_did_not_run"}
          /\ pc = "done")
         => outcome \in {"True", "False"}

\* C20 witness: step_did_not_run is True for s1 on logs that hold a record
\* of s1 that is no Dagster event and a STEP_SUCCESS event of s2
C20_Witness ==
    /\ op = "step_did_not_run"
    /\ pc = "done"
    /\ outcome = "True"
    /\ step_name = "s1"
    /\ Len(logs) = 2
    /\ logs[1].step_key = "s1"
    /\ ~logs[1].is_dagster_event
    /\ logs[2].step_key = "s2"
    /\ logs[2].event_type_value = "STEP_SUCCESS"

C22_UncachedOutsideContext ==
    /\ [](cache_enabled = 0 => request_cache = EmptyCache)
    /\ [][(/\ op = "cache_requests"
           /\ cache_enabled = 0
           /\ nCalls' = nCalls + 1)
            => (/\ cached_call'.sent
                /\ cached_call' # NoCall
                /\ request_cache' = request_cache
                /\ request_cache' = EmptyCache
                /\ nUnderlying' = nUnderlying)]_vars

\* C22 witness: outside every context a second call has been answered by
\* a request of its own, and the cache is empty
C22_Witness ==
    /\ op = "cache_requests"
    /\ cache_enabled = 0
    /\ nCalls >= 2
    /\ cached_call.sent
    /\ cached_call.result \in Bodies
    /\ request_cache = EmptyCache

\* C26: the retry budget is per request.  Every make_request call starts
\* with its retry counter at 0, so a call raises 'Max retries exceeded'
\* only after request_max_retries + 1 failed attempts of its own in a row,
\* and sync_and_poll fails with that error only at such a call: transport
\* errors that earlier requests recovered from do not bring it closer.
C26_RetryBudgetPerRequest ==
    /\ [](req = "failed" =>
            /\ num_retries = request_max_retries
            /\ retry_sleeps = request_max_retries
            /\ attempts = request_max_retries + 1)
    /\ [][(req # "inflight" /\ req' = "inflight")
            => (num_retries' = 1 /\ attempts' = 1)]_vars
    /\ [][(primary' = "max_retries" /\ primary # "max_retries")
            => (/\ req' = "failed"
                /\ num_retries' = request_max_retries
                /\ attempts' = request_max_retries + 1)]_vars
    /\ [][(outcome' = "max_retries" /\ outcome # "max_retries")
            => (\/ primary = "max_retries"
                \/ /\ req' = "failed"
                   /\ attempts' = request_max_retries + 1)]_vars

\* C26 witness: the second status query of a poll fails for good after
\* its own request_max_retries + 1 attempts, although the first status
\* query had already used up a retry (its delay shows in the clock)
C26_Witness ==
    /\ op = "sync_and_poll"
    /\ request_max_retries = 1
    /\ primary = "max_retries"
    /\ req = "failed"
    /\ attempts = 2
    /\ nStatusQueries = 2
    /\ nNonTerminal = 1
    /\ clock - start = 2 * poll_interval + 2 * request_retry_delay

\* C28: logged_attempts is a valid index whenever attempts[logged_attempts]
\* is read: as the number of attempts never decreases, at every answered
\* status query with a non-empty attempt list
\* 0 <= logged_attempts <= (attempts in the snapshot) - 1, and
\* logged_attempts advances by at most one per poll and never goes back.
C28_LoggedAttemptsInRange ==
    /\ [](op = "sync_and_poll" =>
            /\ logged_attempts >= 0
            /\ Len(job_attempts) > 0 => logged_attempts <= Len(job_attempts) - 1
            /\ Len(job_attempts) = 0 => logged_attempts = 0)
    /\ [][(/\ op = "sync_and_poll"
           /\ pc = "get_job_status"
           /\ pc' = "classify"
           /\ Len(job_attempts') > 0)
            => (/\ logged_attempts + 1 \in DOMAIN job_attempts'
                /\ logged_attempts' - logged_attempts \in {0, 1})]_vars
    /\ [][logged_attempts' - logged_attempts \in {0, 1}]_vars

\* C28 witness: the job has made MaxJobAttempts attempts and
\* logged_attempts has followed them to the last one
C28_Witness ==
    /\ op = "sync_and_poll"
    /\ forward_logs
    /\ pc = "classify"
    /\ Len(job_attempts) = MaxJobAttempts
    /\ logged_attempts = MaxJobAttempts - 1
    /\ nStatusQueries >= MaxJobAttempts

\* C27: with forward_logs, when sync_and_poll returns successfully every
\* log line of every attempt in the final job status snapshot has been
\* written, however many attempts the job made and however its logs grew.
C27_AllLinesForwarded ==
    (/\ op = "sync_and_poll"
     /\ forward_logs
     /\ outcome = "returned")
      => \A a \in 1..Len(job_attempts) : \A k \in 1..job_attempts[a] :
            \E i \in 1..Len(written) : written[i] = <<a - 1, k>>

\* C29, as the specification states it: connection details, one
\* start-sync request, then status queries only; as a setup failure sends
\* no cancel request either, sync_and_poll never sends a cancel request.
C29_OnlyStatusQueries ==
    op = "sync_and_poll" => (pc # "cancel_job" /\ nCancelRequests = 0)

\* C29: sync_and_poll issues its requests in a fixed order: the connection
\* details first, then one start-sync request, then status queries, each
\* preceded by one sleep of poll_interval, and last, when the poll ends,
\* at most one cancel request; if fetching the connection details or
\* starting the sync fails, no status query and no cancel request is sent.
C29_RequestOrder ==
    /\ [][(op = "sync_and_poll") =>
            CASE pc = "get_connection_details" ->
                   pc' \in {"get_connection_details", "start_sync", "done"}
              [] pc = "start_sync" -> pc' \in {"start_sync", "loop", "done"}
              [] pc = "loop" -> pc' \in {"sleep", "finally"}
              [] pc = "sleep" -> pc' \in {"get_job_status", "finally"}
              [] pc = "get_job_status" ->
                   pc' \in {"get_job_status", "classify", "finally"}
              [] pc = "classify" -> pc' \in {"loop", "finally"}
              [] pc = "finally" -> pc' \in {"cancel_job", "done"}
              [] pc = "cancel_job" -> pc' \in {"cancel_job", "done"}
              [] OTHER -> FALSE]_vars
    /\ [][(op = "sync_and_poll" /\ pc' = "get_job_status"
                                /\ pc # "get_job_status")
            => (/\ pc = "sleep"
                /\ clock' = clock + poll_interval
                /\ nStatusQueries' = nStatusQueries)]_vars
    /\ [][(op = "sync_and_poll" /\ nStatusQueries' # nStatusQueries)
            => (/\ pc = "get_job_status"
                /\ req # "inflight"
                /\ nStatusQueries' = nStatusQueries + 1)]_vars
    /\ [][(op = "sync_and_poll" /\ pc = "get_job_status" /\ req = "inflight")
            => nStatusQueries' = nStatusQueries]_vars
    /\ []((op = "sync_and_poll" /\ pc = "get_job_status")
            => (req = "inflight" \/ clock - start >= poll_interval))
    /\ []((/\ op = "sync_and_poll"
           /\ \/ pc \in {"get_connection_details", "start_sync"}
              \/ pc \in {"finally", "cancel_job", "done"} /\ primary = "none")
            => (nStatusQueries = 0 /\ nCancelRequests = 0))
    /\ []((op = "sync_and_poll" /\ nCancelRequests > 0)
            => (nCancelRequests = 1 /\ pc \in {"cancel_job", "done"}))

\* C29 witness: the connection details were fetched at the second
\* attempt, then the start-sync request failed for good; sync_and_poll
\* has ended without a status query and without a cancel request
C29_Witness ==
    /\ op = "sync_and_poll"
    /\ pc = "done"
    /\ primary = "none"
    /\ outcome = "max_retries"
    /\ req = "failed"
    /\ request_max_retries = 1
    /\ attempts = 2
    /\ clock = 2 * request_retry_delay
    /\ cancel_sync_on_run_termination
    /\ nStatusQueries = 0
    /\ nCancelRequests = 0

\* C25: every poller raises its timeout only directly after a query that
\* found the terminal condition unmet, with no sleep between that last
\* query and the timeout: the step that raises the timeout is a query
\* step, made at the time the last sleep ended.
C25_TimeoutDirectlyAfterQuery ==
    [][(op \in LocalPollers /\ outcome = "none" /\ outcome' = "timed_out")
         => (/\ pc = "query"
             /\ nQueries' = nQueries + 1
             /\ slept' = slept
             /\ clock' = clock)]_vars

----------------------------------------------------------------------------
(* Pollers in concurrent threads *)

\* C21: poll operations running concurrently share no mutable state:
\* under every interleaving of the steps of two threads, whenever a call
\* is about to query or has ended, its elapsed time, its interval, its
\* number of queries and its outcome are those of the same call running
\* alone against the same answers of its provider.
C21_SameAsAlone ==
    op = "threads" =>
      \A i \in ThreadIds :
        threads[i].pc \in {"query", "done"} =>
          Locals(i) = RunAlone(threads[i].op, threads[i].timeout,
                               FirstLocals(threads[i].op),
                               SubSeq(threads[i].answers, 1,
                                      threads[i].nQueries),
                               0)

\* C21 witness: wait_for_runs_to_finish in one thread and poll_for_event
\* in the other have both timed out after two queries each, their sleeps
\* having overlapped, with the intervals each reaches on its own
C21_Witness ==
    /\ op = "threads"
    /\ threads[1].op = "wait_for_runs_to_finish"
    /\ threads[2].op = "poll_for_event"
    /\ \A i \in ThreadIds :
         /\ threads[i].pc = "done"
         /\ threads[i].outcome = "timed_out"
         /\ threads[i].nQueries = 2
    /\ frames[1].interval = NextInterval(WaitInterval)
    /\ frames[2].interval = NextInterval(NextInterval(PollInterval))
    /\ monotonic = WaitInterval

----------------------------------------------------------------------------
(* The depth counter of the request cache *)

\* C31: after any sequence of cache_requests entries and exits, normal or
\* by exception, and make_request_cached calls on one AirbyteResource,
\* _cache_enabled equals the number of cache_requests contexts that are
\* active, is never negative, and the request cache is empty whenever
\* that number is 0.
C31_EnabledCountsContexts ==
    op = "cache_requests" =>
      /\ cache_enabled = active_contexts
      /\ cache_enabled >= 0
      /\ active_contexts = 0 => request_cache = EmptyCache

\* C31 witness: two nested contexts were entered, a response was cached,
\* and the inner context has been left: one context is active, the cache
\* is empty again
C31_Witness ==
    /\ op = "cache_requests"
    /\ active_contexts = 1
    /\ cache_enabled = 1
    /\ nCalls >= 1
    /\ \E p \in Pairs : nUnderlying[p] >= 1
    /\ request_cache = EmptyCache
    /\ cached_call = NoCall

\* C32: inside a cache_requests context a make_request_cached call whose
\* underlying request raises stores nothing for its (endpoint, data) pair
\* and leaves the rest of the cache unchanged, so that an identical call
\* sends the request again; a successful response of None (HTTP 204) is
\* cached and is not requested again.
C32_FailureNotCachedNoneCached ==
    [][(/\ op = "cache_requests"
        /\ cache_enabled > 0
        /\ nCalls' = nCalls + 1)
         => LET digest == Digest(cached_call'.endpoint, cached_call'.data)
            IN  /\ request_cache[digest] = NotCached => cached_call'.sent
                /\ (cached_call'.sent /\ cached_call'.result = RequestFailure)
                     => (/\ request_cache' = request_cache
                         /\ request_cache'[digest] = NotCached)
                /\ (cached_call'.sent /\ cached_call'.result = None)
                     => (/\ request_cache'[digest] = None
                         /\ \A d \in Digests \ {digest} :
                              request_cache'[d] = request_cache[d])
                /\ request_cache[digest] = None
                     => (/\ ~cached_call'.sent
                         /\ cached_call'.result = None
                         /\ request_cache' = request_cache)]_vars

\* C32 witness: a None response is cached for one pair, a second call
\* for it was answered from the cache, and the third call, for another
\* pair, has raised and left nothing in the cache for its pair
C32_Witness ==
    /\ op = "cache_requests"
    /\ cache_enabled > 0
    /\ nCalls = 3
    /\ cached_call.sent
    /\ cached_call.result = RequestFailure
    /\ request_cache[Digest(cached_call.endpoint, cached_call.data)] = NotCached
    /\ \E p \in Pairs :
         /\ request_cache[Digest(p[1], p[2])] = None
         /\ nUnderlying[p] = 1
         /\ \A q \in Pairs \ {p} : nUnderlying[q] = 0

----------------------------------------------------------------------------
(* What make_request returns *)

\* C33: make_request returns the parsed body of the first attempt that
\* succeeds, None for a 204 response, and makes no attempt after it; a
\* success on any attempt up to and including attempt
\* request_max_retries + 1 yields a normal return, never a Failure.
C33_ReturnsFirstSuccess ==
    /\ [][(op = "make_request" /\ attempts' # attempts
                               /\ response' # "RequestException")
            => (/\ req' = "returned"
                /\ pc' = "done"
                /\ outcome' = "returned"
                /\ attempts' = num_retries' + 1
                /\ return_value' = (IF response' = "no_content" THEN None
                                    ELSE "json"))]_vars
    /\ [][(op = "make_request" /\ outcome' = "max_retries")
            => response' = "RequestException"]_vars
    /\ [][(op = "make_request" /\ pc = "done")
            => (attempts' = attempts /\ return_value' = return_value)]_vars
    /\ []((op = "make_request" /\ pc # "done") => return_value = NoValue)
    /\ []((op = "make_request" /\ outcome = "returned"
                               /\ request_max_retries >= 0)
            => attempts <= request_max_retries + 1)

\* C33 witness: after request_max_retries failed attempts the last
\* attempt the budget allows was answered 204 and make_request has
\* returned None
C33_Witness ==
    /\ op = "make_request"
    /\ request_max_retries = MaxRequestRetries
    /\ attempts = request_max_retries + 1
    /\ num_retries = request_max_retries
    /\ response = "no_content"
    /\ pc = "done"
    /\ outcome = "returned"
    /\ return_value = None

----------------------------------------------------------------------------
(* Queries that return no runs *)

\* C34: wait_for_runs_to_finish returns from a query that returns no runs
\* at all, so at its first query and without sleeping if that one returns
\* none, whereas poll_for_finished_run goes on to sleep after every query
\* that returns no run and leaves its loop without a run only by the
\* timeout.
C34_EmptyQuery ==
    /\ [][(op = "wait_for_runs_to_finish" /\ pc = "query" /\ runs' = <<>>)
            => (/\ pc' = "done"
                /\ outcome' = "returned"
                /\ slept' = slept
                /\ nQueries = 0 => (slept' = 0 /\ clock' = 0))]_vars
    /\ [][(op = "poll_for_finished_run" /\ pc = "query" /\ runs' = <<>>)
            => (pc' = "sleep" /\ outcome' = "none")]_vars
    /\ [][(op = "poll_for_finished_run" /\ pc = "sleep")
            => (/\ slept' > slept
                /\ \/ pc' = "query" /\ outcome' = "none"
                   \/ pc' = "done" /\ outcome' = "timed_out")]_vars
    /\ []((op = "poll_for_finished_run" /\ pc = "done" /\ runs = <<>>)
            => (outcome = "timed_out" /\ Expired(total_time, timeout)))

\* C34 witness: wait_for_runs_to_finish, asked for runs with a tag no run
\* carries, has returned from its first query without having slept
C34_Witness ==
    /\ op = "wait_for_runs_to_finish"
    /\ run_tags # {}
    /\ pc = "done"
    /\ outcome = "returned"
    /\ runs = <<>>
    /\ nQueries = 1
    /\ slept = 0
    /\ clock = 0

----------------------------------------------------------------------------
(* MockedRunLauncher: the queue and the launched ids *)

\* C35: after any sequence of launch_run calls on a MockedRunLauncher,
\* queue() holds exactly the runs whose launch succeeded, in launch order,
\* did_run_launch(id) is true exactly for the ids of the runs in queue(),
\* and no id in bad_run_ids or bad_user_code_run_ids is among them; a
\* launch that is rejected (status not STARTING, id in bad_run_ids ->
\* Exception, id in bad_user_code_run_ids ->
\* DagsterUserCodeUnreachableError) leaves both unchanged.
C35_QueueHoldsLaunched ==
    /\ [](op = "launch_run" =>
            /\ LET ok == SelectSeq(launches, LAMBDA c : c.result = "returned")
               IN  Queue = [i \in 1..Len(ok) |-> ok[i].run]
            /\ \A id \in RunIds :
                 DidRunLaunch(id) <=> \E i \in 1..Len(Queue) : Queue[i].run_id = id
            /\ \A i \in 1..Len(Queue) :
                 Queue[i].run_id \notin bad_run_ids \cup bad_user_code_run_ids
            /\ \A i \in 1..Len(launches) :
                 LET c == launches[i]
                 IN  /\ c.run.status # "STARTING" => c.result = "CheckError"
                     /\ (c.run.status = "STARTING" /\ c.run.run_id \in bad_run_ids)
                          => c.result = "Exception"
                     /\ (/\ c.run.status = "STARTING"
                         /\ c.run.run_id \notin bad_run_ids
                         /\ c.run.run_id \in bad_user_code_run_ids)
                          => c.result = "DagsterUserCodeUnreachableError")
    /\ [][(/\ op = "launch_run"
           /\ Len(launches') = Len(launches) + 1
           /\ launches'[Len(launches')].result # "returned")
            => (queue' = queue /\ launched_run_ids' = launched_run_ids)]_vars

\* C35 witness: of three launches the first and the third succeeded and
\* the second, of a run whose id is in bad_user_code_run_ids, was
\* rejected: the queue holds the runs of the first and the third launch
C35_Witness ==
    /\ op = "launch_run"
    /\ Len(launches) = 3
    /\ launches[1].result = "returned"
    /\ launches[2].result = "DagsterUserCodeUnreachableError"
    /\ launches[3].result = "returned"
    /\ Len(queue) = 2
    /\ queue[1] = launches[1].run
    /\ queue[2] = launches[3].run

----------------------------------------------------------------------------
(* wait_for_futures: what is left in the dict *)

\* C36: wait_for_futures visits the futures in dict order and removes
\* from the dict exactly those futures it had to wait on and that
\* completed without raising; a future that was already done when visited
\* stays in the dict, and if waiting on a future raises (timeout or the
\* future's own exception) that entry and every entry not yet visited
\* stay in the dict and the exception leaves wait_for_futures.
C36_RemovesWaitedFutures ==
    /\ [](op = "wait_for_futures" =>
            LET removed == {futures_copy[k] : k \in 1..target} \cap waited
            IN  /\ futures = SelectSeq(futures_copy, LAMBDA id : id \notin removed)
                /\ \A id \in removed : future_state[id] = "finished"
                /\ (pc = "done" /\ outcome # "returned")
                     => /\ outcome \in {"TimeoutError", "future_exception"}
                        /\ target < Len(futures_copy)
                        /\ \A k \in (target + 1)..Len(futures_copy) :
                             \E i \in 1..Len(futures) :
                               futures[i] = futures_copy[k]
                /\ (pc = "done" /\ outcome = "returned")
                     => target = Len(futures_copy))
    /\ [][(op = "wait_for_futures") => target' \in {target, target + 1}]_vars
    /\ [][(op = "wait_for_futures" /\ pc = "visit" /\ target' = target + 1)
            => (future_state[Current] # "running" /\ futures' = futures)]_vars
    /\ [][(op = "wait_for_futures" /\ pc = "result" /\ target' = target + 1)
            => (/\ Current \in waited
                /\ future_state[Current] = "finished"
                /\ futures' = Without(futures, Current))]_vars
    /\ [][(op = "wait_for_futures" /\ outcome' # outcome
                                   /\ outcome' # "returned")
            => (pc = "result" /\ pc' = "done" /\ futures' = futures)]_vars

\* C36 witness: of three futures the first was done when visited and has
\* stayed, the second was waited on, finished and has been removed, the
\* wait on the third raised the future's exception: the first and the
\* third are left
C36_Witness ==
    /\ op = "wait_for_futures"
    /\ pc = "done"
    /\ outcome = "future_exception"
    /\ futures_copy = TargetIds(3)
    /\ futures = <<1, 3>>
    /\ waited = {2, 3}
    /\ target = 2

----------------------------------------------------------------------------
(* The mocked system timezone *)

\* C37: get_mocked_system_timezone() returns an override only between
\* the entry and the exit of a mock_system_timezone context: every exit
\* of such a context, normal or by exception, inner or outer, sets the
\* value to None, and outside any context the value is None.
C37_OverrideOnlyInsideContext ==
    /\ [](op = "mock_system_timezone" =>
            /\ tz_contexts = <<>> => mocked_system_timezone = None
            /\ mocked_system_timezone # None
                 => (/\ tz_contexts # <<>>
                     /\ mocked_system_timezone = tz_contexts[Len(tz_contexts)]))
    /\ [][(op = "mock_system_timezone" /\ Len(tz_contexts') < Len(tz_contexts))
            => mocked_system_timezone' = None]_vars
    /\ [][(op = "mock_system_timezone" /\ Len(tz_contexts') > Len(tz_contexts))
            => mocked_system_timezone' = tz_contexts'[Len(tz_contexts')]]_vars
    /\ [][(op = "mock_system_timezone" /\ observed_timezone' # observed_timezone)
            => (/\ observed_timezone' = mocked_system_timezone
                /\ observed_timezone' # None => tz_contexts # <<>>)]_vars

\* C37 witness: an inner context has been left while the outer one is
\* still active, and get_mocked_system_timezone() has returned None
\* after having returned an override
C37_Witness ==
    /\ op = "mock_system_timezone"
    /\ Len(tz_contexts) = 1
    /\ mocked_system_timezone = None
    /\ observed_timezone = None

====
